---------------------------- MODULE Spec2Model ----------------------------
(***************************************************************************)
(* A model of the retrieval-augmented diff-review engine of               *)
(* genai-pr-reviewer: the line reconciler and comment publisher           *)
(* (codecommitComments), the finding extractor, the repository indexer    *)
(* (embeddingService), the knowledge base, the pull request processing,   *)
(* the webhook and index request handlers of the server, and the          *)
(* guideline store.  Each subsystem has its own specification over the    *)
(* shared variables; the variables of the other subsystems stay at their  *)
(* idle values.                                                            *)
(***************************************************************************)
EXTENDS Integers, Sequences, FiniteSets, TLC

VARIABLES
    afterContent,   \* the post-change file text handed to the reconciler
    aiLine,         \* the `line` argument of postInlineFileComment
    rcPc,           \* position of the postInlineFileComment call
    requests,       \* PostCommentForPullRequest requests sent (filePosition of each)
    commentResult,  \* the record postInlineFileComment returned
    lineIssues,     \* postLineSpecificIssues: the findings the extractor returned
    issuesToPost,   \* postLineSpecificIssues: the findings selected for posting
    postIdx,        \* postLineSpecificIssues: index of the loop over issuesToPost
    results,        \* postLineSpecificIssues: the comment results collected
    pubPc,          \* position of the postLineSpecificIssues call
    apiRejects,     \* number of requests the hosting API has rejected
    response,       \* analyzeFileWithAI: the text of the model response
    keyFindings,    \* the keyFindings argument of postLineSpecificIssues
    analysisResult, \* analyzeFileWithAI: the result record of the file
    anPc,           \* position of the analyzeFileWithAI call
    repoContent,    \* the repository: content of each path
    store,          \* the points of the collection or namespace
    collExists,     \* whether the Qdrant collection exists
    uuidNext,       \* number of the next identifier uuidv4 draws
    ixMode,         \* "repo", "repoNoClear": createEmbeddingsForRepo; "merge": updateEmbeddingsOnMerge
    ixRepo,         \* the repository name the indexer is called with
    ixPc,           \* position of the indexing run
    ixDocs,         \* createEmbeddingsForRepo: the points still to upsert
    ixQueue,        \* updateEmbeddingsOnMerge: the files still to process
    reads,          \* what each pass read (content, files processed)
    snaps,          \* the points of the store at the end of each pass
    faults,         \* number of failed store or embedding operations
    ixRun,          \* createEmbeddingsForRepo: counters, upsert attempts, outcome
    kbCollections,  \* knowledge base: the points of each Qdrant collection
    kbIndexed,      \* the (repository, branch) pairs indexed so far
    kbContext,      \* the last result of getRelevantContext and whom it was for
    prClient,       \* the model client in use
    prPages,        \* the pages GetDifferences answers with, in order
    prPageIdx,      \* number of pages fetched
    prLists,        \* newFiles, changedFiles, deletedFiles, totalDifferences
    prPc,           \* position of processCodeCommitPullRequest
    prQueue,        \* analyzeFilesInBatches: the files not yet in a batch
    prBatch,        \* the analyzeFileWithAI calls of the current batch
    prResults,      \* analyzeFilesInBatches: results
    prSummary,      \* the summary processCodeCommitPullRequest returns
    whNow,          \* Date.now(), in units of the model clock
    whLastCleanup,  \* the time the cleanup interval last fired
    processedEvents,\* the Map of event keys to timestamps
    whLog,          \* the webhook requests handled, with answer and processing
    indexesCreated, \* guidelines: the module flag `indexesCreated`
    glCollection,   \* guidelines: whether the ai_guidelines collection exists
    glCalls,        \* guidelines: the calls made, each with its position
    glRequests,     \* guidelines: the createPayloadIndex requests issued
    processedIndexEvents,\* the Map of index event keys to timestamps
    irLog           \* the POST /index requests handled, each with its indexing run

rcVars == <<afterContent, aiLine, rcPc, requests, commentResult, apiRejects>>
pubVars == <<lineIssues, issuesToPost, postIdx, results, pubPc>>
anVars == <<response, keyFindings, analysisResult, anPc>>
ixVars == <<repoContent, store, collExists, uuidNext, ixMode, ixRepo, ixPc,
           ixDocs, ixQueue, reads, snaps, faults, ixRun>>
kbVars == <<kbCollections, kbIndexed, kbContext>>
prVars == <<prClient, prPages, prPageIdx, prLists, prPc, prQueue, prBatch, prResults, prSummary>>
whVars == <<whNow, whLastCleanup, processedEvents, whLog>>
glVars == <<indexesCreated, glCollection, glCalls, glRequests>>
irVars == <<processedIndexEvents, irLog>>

vars == <<afterContent, aiLine, rcPc, requests, commentResult, apiRejects,
          lineIssues, issuesToPost, postIdx, results, pubPc,
          response, keyFindings, analysisResult, anPc,
          repoContent, store, collExists, uuidNext, ixMode, ixRepo, ixPc,
          ixDocs, ixQueue, reads, snaps, faults, ixRun,
          kbCollections, kbIndexed, kbContext,
          prClient, prPages, prPageIdx, prLists, prPc, prQueue, prBatch, prResults, prSummary,
          whNow, whLastCleanup, processedEvents, whLog,
          indexesCreated, glCollection, glCalls, glRequests,
          processedIndexEvents, irLog>>

-----------------------------------------------------------------------------
(* Bounds of the model.                                                    *)

MaxLines == 3       \* physical lines of a non-empty after-content
MaxLabel == 3       \* largest digit used in a line label
MaxAiLine == 5      \* largest line number the model response reports
MaxIssues == 12     \* findings the extractor returns for one file
MaxBlocks == 2      \* runs of equal severity in the extractor's list
MaxFileLines == 10  \* physical lines of the file a review publishes to
MaxApiRejects == 1  \* requests the hosting API rejects in one run
MaxRespLines == 3   \* lines of a model response
MaxLineNo == 2      \* largest line number an issue line reports
MaxKeyFindings == 2 \* entries of keyFindings.lineSpecificIssues
MaxPasses == 2      \* indexing passes over one repository
MaxFaults == 2      \* store or embedding operations that fail
MaxPages == 2       \* pages of one GetDifferences listing
MaxEvents == 3      \* webhook requests received
MaxGlCalls == 3     \* calls of the guideline store
MaxIndexRequests == 3  \* POST /index requests received

-----------------------------------------------------------------------------
(* Generic helpers.                                                        *)

Min(a, b) == IF a < b THEN a ELSE b

SeqsUpTo(S, n) == UNION {[1..k -> S] : k \in 1..n}

\* Array.prototype.findIndex, 1-based, given the set of positions whose
\* element satisfies the predicate; 0 when there is none (JavaScript's -1).
FindIndex(matching) ==
    IF matching = {} THEN 0
    ELSE CHOOSE i \in matching : \A j \in matching : i <= j

-----------------------------------------------------------------------------
(* Text of the after-content.  A text is the sequence of its lines, as    *)
(* split('\n') returns them.  A line is raw text, or carries a label      *)
(* prefix: "AFTER-<digits>:" or "<digits>: ".  A label is kept as its     *)
(* digit string, so "01" and "1" are different texts with the same value. *)

LabelTexts == {<<d>> : d \in 0..MaxLabel} \cup {<<0, d>> : d \in 0..MaxLabel}

EmptyLine == [kind |-> "EMPTY", label |-> <<>>]
RawLine == [kind |-> "RAW", label |-> <<>>]
AfterLine(ds) == [kind |-> "AFTER", label |-> ds]
NumLine(ds) == [kind |-> "NUM", label |-> ds]

Lines == {RawLine} \cup {AfterLine(ds) : ds \in LabelTexts}
                   \cup {NumLine(ds) : ds \in LabelTexts}

NullContent == [isNull |-> TRUE, lines |-> <<>>]
\* ''.split('\n') is [''].
EmptyString == [isNull |-> FALSE, lines |-> <<EmptyLine>>]
Text(ls) == [isNull |-> FALSE, lines |-> ls]

Contents == {NullContent, EmptyString} \cup {Text(ls) : ls \in SeqsUpTo(Lines, MaxLines)}

\* JavaScript truthiness of a string-or-null: null and '' are falsy.
Truthy(content) == ~content.isNull /\ content # EmptyString

\* parseInt of a digit string.
RECURSIVE ParseInt(_)
ParseInt(ds) ==
    IF ds = <<>> THEN 0
    ELSE 10 * ParseInt(SubSeq(ds, 1, Len(ds) - 1)) + ds[Len(ds)]

AiLines == (0 - 1)..MaxAiLine

-----------------------------------------------------------------------------
(* Line reconciler.                                                        *)

HasAfterPrefix(content) == \E i \in 1..Len(content.lines) : content.lines[i].kind = "AFTER"
HasNumberPrefix(content) == \E i \in 1..Len(content.lines) : content.lines[i].kind = "NUM"

\* A forgotten `+ 1` on the 0-based findIndex result.
MapFallback_ZeroBased(found, aiLineNumber) == IF found >= 1 THEN found - 1 ELSE aiLineNumber

\* `actualLine >= 0 ? actualLine + 1 : aiLineNumber`, on the 1-based index.
MapFallback(found, aiLineNumber) == IF found >= 1 THEN found ELSE aiLineNumber

mapAILineToActualLine(aiLineNumber, content) ==
    LET afterLines == content.lines
        afterMatches == {i \in 1..Len(afterLines) :
            afterLines[i].kind = "AFTER" /\ ParseInt(afterLines[i].label) = aiLineNumber}
        numberMatches == {i \in 1..Len(afterLines) :
            afterLines[i].kind = "NUM" /\ ParseInt(afterLines[i].label) = aiLineNumber}
    IN  IF HasAfterPrefix(content)
        THEN MapFallback(FindIndex(afterMatches), aiLineNumber)
        ELSE IF HasNumberPrefix(content)
        THEN MapFallback(FindIndex(numberMatches), aiLineNumber)
        ELSE aiLineNumber

\* totalLines of validateLineInFile.
TotalLines(content, isNumberedContent) ==
    IF isNumberedContent
    THEN Cardinality({i \in 1..Len(content.lines) : content.lines[i].kind = "NUM"})
    ELSE Len(content.lines)

validateLineInFile(ln, content, isNumberedContent) ==
    IF ~Truthy(content)
    THEN [valid |-> FALSE, error |-> "NoContent"]
    ELSE LET isValid == ln >= 1 /\ ln <= TotalLines(content, isNumberedContent)
         IN  [valid |-> isValid, error |-> IF isValid THEN "none" ELSE "OutOfRange"]

\* `afterContent ? mapAILineToActualLine(line, afterContent) : line`
ActualLine(ln, content) ==
    IF Truthy(content) THEN mapAILineToActualLine(ln, content) ELSE ln

\* The guard of postInlineFileComment: is the call stopped before any request?
RejectsLine(ln, content) ==
    Truthy(content) /\ ~validateLineInFile(ActualLine(ln, content), content, FALSE).valid

NoResult == [success |-> FALSE, error |-> "pending", line |-> 0, originalAILine |-> 0]

createCommentResult(success, error, ln, original) ==
    [success |-> success, error |-> error, line |-> ln, originalAILine |-> original]

\* postInlineFileComment up to its `await client.send(command)`.
PostInlineFileComment ==
    /\ rcPc = "call"
    /\ IF RejectsLine(aiLine, afterContent)
       THEN /\ commentResult' = createCommentResult(FALSE,
                   validateLineInFile(ActualLine(aiLine, afterContent), afterContent, FALSE).error,
                   ActualLine(aiLine, afterContent), aiLine)
            /\ rcPc' = "done"
            /\ UNCHANGED requests
       ELSE /\ requests' = Append(requests, ActualLine(aiLine, afterContent))
            /\ rcPc' = "sent"
            /\ UNCHANGED commentResult
    /\ UNCHANGED <<afterContent, aiLine, apiRejects>>

\* client.send resolves: the comment was created.
ClientSendResolves ==
    /\ rcPc = "sent"
    /\ commentResult' = createCommentResult(TRUE, "none", ActualLine(aiLine, afterContent), aiLine)
    /\ rcPc' = "done"
    /\ UNCHANGED <<afterContent, aiLine, requests, apiRejects>>

\* client.send rejects: the catch block returns a failure record.
ClientSendRejects ==
    /\ rcPc = "sent"
    /\ apiRejects < MaxApiRejects
    /\ apiRejects' = apiRejects + 1
    /\ commentResult' = createCommentResult(FALSE, "ApiError", ActualLine(aiLine, afterContent), aiLine)
    /\ rcPc' = "done"
    /\ UNCHANGED <<afterContent, aiLine, requests>>

RcInit ==
    /\ afterContent \in Contents
    /\ aiLine \in AiLines
    /\ rcPc = "call"
    /\ requests = <<>>
    /\ commentResult = NoResult
    /\ apiRejects = 0

RcIdle ==
    /\ afterContent = NullContent
    /\ aiLine = 0
    /\ rcPc = "idle"
    /\ requests = <<>>
    /\ commentResult = NoResult
    /\ apiRejects = 0

RcNext == PostInlineFileComment \/ ClientSendResolves \/ ClientSendRejects

-----------------------------------------------------------------------------
(* Comment publisher: postLineSpecificIssues.                              *)

MAX_COMMENTS == 10

Severities == {"critical", "high", "medium", "low"}

\* SEVERITY_CONFIG.ORDER
SeverityOrder(sev) ==
    CASE sev = "critical" -> 4
      [] sev = "high" -> 3
      [] sev = "medium" -> 2
      [] sev = "low" -> 1

\* Comparator of the sort in prioritizeIssues: negative when a goes first.
CompareSeverity(a, b) == SeverityOrder(b.severity) - SeverityOrder(a.severity)

\* Array.prototype.sort is stable: x goes before the first element that
\* the comparator places strictly after it.
RECURSIVE InsertBySeverity(_, _)
InsertBySeverity(x, sorted) ==
    IF sorted = <<>> THEN <<x>>
    ELSE IF CompareSeverity(sorted[Len(sorted)], x) > 0
         THEN Append(InsertBySeverity(x, SubSeq(sorted, 1, Len(sorted) - 1)), sorted[Len(sorted)])
         ELSE Append(sorted, x)

RECURSIVE SortBySeverity(_)
SortBySeverity(issues) ==
    IF issues = <<>> THEN <<>>
    ELSE InsertBySeverity(issues[Len(issues)], SortBySeverity(SubSeq(issues, 1, Len(issues) - 1)))

\* The cap applied before the sort.
prioritizeIssues_SliceFirst(issues) ==
    SortBySeverity(SubSeq(issues, 1, Min(Len(issues), MAX_COMMENTS)))

prioritizeIssues(issues) ==
    SubSeq(SortBySeverity(issues), 1, Min(Len(issues), MAX_COMMENTS))

\* `if (issuesToPost.length > MAX_COMMENTS) issuesToPost = prioritizeIssues(...)`
SelectIssues(issues) ==
    IF Len(issues) > MAX_COMMENTS THEN prioritizeIssues(issues) ELSE issues

\* The lists the extractor returns: sorted by ascending line, here one
\* finding per line, the severities in at most MaxBlocks runs.
SeverityRuns == SeqsUpTo(Severities \X (1..MaxIssues), MaxBlocks)

RECURSIVE RunsLength(_)
RunsLength(runs) ==
    IF runs = <<>> THEN 0 ELSE runs[1][2] + RunsLength(Tail(runs))

RECURSIVE ExpandRuns(_)
ExpandRuns(runs) ==
    IF runs = <<>> THEN <<>>
    ELSE [i \in 1..runs[1][2] |-> runs[1][1]] \o ExpandRuns(Tail(runs))

Issue(ln, sev) == [line |-> ln, severity |-> sev, problem |-> "issue"]

IssueLists ==
    {<<>>} \cup
    {[i \in 1..RunsLength(runs) |-> Issue(i, ExpandRuns(runs)[i])] :
        runs \in {r \in SeverityRuns : RunsLength(r) <= MaxIssues}}

RawText(n) == Text([i \in 1..n |-> RawLine])

PublishContents == {EmptyString, RawText(MaxFileLines)}

\* The `[createCommentResult(true, {message: 'No line-specific issues identified'})]`
NoIssuesResult == [success |-> TRUE, error |-> "none", line |-> 0, originalAILine |-> 0]

\* postLineSpecificIssues from its call to the head of the posting loop:
\* extraction has returned lineIssues; select the issues to post.
PostLineSpecificIssues ==
    /\ pubPc = "start"
    /\ IF Len(lineIssues) = 0
       THEN /\ results' = <<NoIssuesResult>>
            /\ pubPc' = "returned"
            /\ UNCHANGED issuesToPost
       ELSE /\ issuesToPost' = SelectIssues(lineIssues)
            /\ pubPc' = "loop"
            /\ UNCHANGED results
    /\ UNCHANGED <<lineIssues, postIdx, rcVars>>

\* Loop head: the next issue is handed to postInlineFileComment.
CallPostInlineFileComment ==
    /\ pubPc = "loop"
    /\ postIdx <= Len(issuesToPost)
    /\ aiLine' = issuesToPost[postIdx].line
    /\ rcPc' = "call"
    /\ pubPc' = "posting"
    /\ UNCHANGED <<afterContent, requests, commentResult, apiRejects>>
    /\ UNCHANGED <<lineIssues, issuesToPost, postIdx, results>>

\* postInlineFileComment has returned: `results.push(issueComment)`, then the
\* `await` of the COMMENT_DELAY timer.
CollectResult ==
    /\ pubPc = "posting"
    /\ rcPc = "done"
    /\ results' = Append(results, commentResult)
    /\ rcPc' = "idle"
    /\ pubPc' = "delay"
    /\ UNCHANGED <<afterContent, aiLine, requests, commentResult, apiRejects>>
    /\ UNCHANGED <<lineIssues, issuesToPost, postIdx>>

\* A loop that gives up after the first comment that failed.
DelayElapsed_StopsAtFailure ==
    /\ pubPc = "delay"
    /\ postIdx' = IF results[Len(results)].success THEN postIdx + 1
                  ELSE Len(issuesToPost) + 1
    /\ pubPc' = "loop"
    /\ UNCHANGED <<rcVars, lineIssues, issuesToPost, results>>

\* The delay timer fires: the loop goes on to the next issue.
DelayElapsed ==
    /\ pubPc = "delay"
    /\ postIdx' = postIdx + 1
    /\ pubPc' = "loop"
    /\ UNCHANGED <<rcVars, lineIssues, issuesToPost, results>>

\* The loop is over: `return results`.
ReturnResults ==
    /\ pubPc = "loop"
    /\ postIdx > Len(issuesToPost)
    /\ pubPc' = "returned"
    /\ UNCHANGED <<rcVars, lineIssues, issuesToPost, postIdx, results>>

PubInit ==
    /\ afterContent \in PublishContents
    /\ lineIssues \in IssueLists
    /\ aiLine = 0
    /\ rcPc = "idle"
    /\ requests = <<>>
    /\ commentResult = NoResult
    /\ apiRejects = 0
    /\ issuesToPost = <<>>
    /\ postIdx = 1
    /\ results = <<>>
    /\ pubPc = "start"

PubIdle ==
    /\ lineIssues = <<>>
    /\ issuesToPost = <<>>
    /\ postIdx = 1
    /\ results = <<>>
    /\ pubPc = "idle"

PubNext ==
    \/ PostLineSpecificIssues
    \/ CallPostInlineFileComment
    \/ CollectResult
    \/ DelayElapsed
    \/ ReturnResults
    \/ (RcNext /\ UNCHANGED pubVars)

-----------------------------------------------------------------------------
(* Finding extractor: the text of a model response.  A response is the     *)
(* sequence of its lines (split('\n')); a line is kept by its structure:   *)
(* an issue line "<bullet> **Line <n>: [<type>]** - <description>" with    *)
(* or without bullet, bold markers, brackets and separator; a              *)
(* "**Fix:** <text>" line; a "**Severity:** <word>" line; a line of prose; *)
(* or an empty line.  Type, description, fix and severity word are texts   *)
(* without a "Line <n>:" marker of their own.                              *)

\* String.prototype.toLowerCase on the texts of the model.
ToLower(s) ==
    CASE s = "Security Issue" -> "security issue"
      [] s = "Code Smell" -> "code smell"
      [] s = "Critical" -> "critical"
      [] s = "High" -> "high"
      [] s = "Low" -> "low"
      [] s = "Info" -> "info"
      [] OTHER -> s

\* String.prototype.length of the texts of the model.
StrLen(s) ==
    CASE s = "" -> 0
      [] s = "x" -> 1
      [] s = "-" -> 1
      [] s = "*" -> 1
      [] s = "Info" -> 4
      [] s = "Critical" -> 8
      [] s = "Code Smell" -> 10
      [] s = "unused import" -> 13
      [] s = "Security Issue" -> 14
      [] s = "hardcoded secret" -> 16
      [] s = "Looks good overall." -> 19
      [] s = "use environment variable" -> 24

\* String.prototype.includes on a lower-cased text: the keywords of
\* ISSUE_TYPE_CONFIG and generateFixSuggestion that occur in it.
WordsIn(lower) ==
    CASE lower = "security issue" -> {"security"}
      [] lower = "code smell" -> {"code smell"}
      [] lower = "unused import" -> {"unused import", "import", "unused"}
      [] OTHER -> {}

\* A description as it stands in the line: its text, and whether extra
\* white space stands around it.  trim() removes the white space.
Desc(text, pad) == [text |-> text, pad |-> pad]

Trim(d) == [d EXCEPT !.pad = FALSE]

\* A captured issue type: the text, and the "**" that rule 7 leaves at its
\* end on a bold line without brackets.
TypeText(text, tail) == [text |-> text, tail |-> tail]

IssueLine(bullet, bold, bracket, sep, num, type, desc) ==
    [kind |-> "ISSUE", bullet |-> bullet, bold |-> bold, bracket |-> bracket,
     sep |-> sep, num |-> num, type |-> type, desc |-> desc]

FixLine(text) == [kind |-> "FIX", text |-> text]
SeverityLine(word) == [kind |-> "SEV", word |-> word]
ProseLine == [kind |-> "PROSE", text |-> "Looks good overall."]
BlankLine == [kind |-> "BLANK", text |-> ""]

\* The four issue-line shapes '- **Line', '* **Line', '**Line', 'Line'.
IssueShapes ==
    {[bullet |-> "-", bold |-> TRUE], [bullet |-> "*", bold |-> TRUE],
     [bullet |-> "", bold |-> TRUE], [bullet |-> "", bold |-> FALSE]}

LineNumbers == {<<d>> : d \in 0..MaxLineNo}

TypedDescs ==
    {<<"Security Issue", Desc("hardcoded secret", FALSE)>>,
     <<"Security Issue", Desc("hardcoded secret", TRUE)>>,
     <<"Code Smell", Desc("unused import", FALSE)>>}

IssueLines ==
    {IssueLine(sh.bullet, sh.bold, TRUE, TRUE, n, td[1], td[2]) :
        sh \in IssueShapes, n \in LineNumbers, td \in TypedDescs}
    \cup {IssueLine("", FALSE, FALSE, TRUE, <<1>>, "Code Smell", Desc("unused import", FALSE)),
          IssueLine("", FALSE, FALSE, FALSE, <<1>>, "", Desc("unused import", FALSE)),
          IssueLine("", FALSE, FALSE, FALSE, <<1>>, "", Desc("x", FALSE))}

OtherLines ==
    {FixLine("use environment variable"), FixLine(""),
     SeverityLine("Critical"), SeverityLine("Info"), ProseLine, BlankLine}

ResponseLines == IssueLines \cup OtherLines

Responses == SeqsUpTo(ResponseLines, MaxRespLines)

\* `!aiAnalysis`: the empty string, whose split is one empty line.
IsEmptyText(text) == text = <<BlankLine>>

\* line.trim().length
TrimmedLength(l) ==
    IF l.kind = "ISSUE"
    THEN (IF l.bullet = "" THEN 0 ELSE StrLen(l.bullet) + 1)
         + (IF l.bold THEN 4 ELSE 0)
         + 5 + Len(l.num) + 1
         + (IF l.sep THEN 1 + StrLen(l.type) + (IF l.bracket THEN 2 ELSE 0) + 3
                     + (IF l.desc.pad THEN 2 ELSE 0)
            ELSE 1)
         + StrLen(l.desc.text)
    ELSE IF l.kind = "FIX" THEN 8 + (IF l.text = "" THEN 0 ELSE 1 + StrLen(l.text))
    ELSE IF l.kind = "SEV" THEN 13 + 1 + StrLen(l.word)
    ELSE StrLen(l.text)

\* line.match(LINE_EXTRACTION_PATTERNS[k - 1])
PatternMatches(k, l) ==
    /\ l.kind = "ISSUE"
    /\ CASE k = 1 -> l.bullet = "*" /\ l.bold /\ l.bracket /\ l.sep
         [] k = 2 -> l.bullet = "-" /\ l.bold /\ l.bracket /\ l.sep
         [] k = 3 -> l.bold /\ l.bracket /\ l.sep
         [] k = 4 -> l.bullet = "*" /\ l.bold /\ l.sep
         [] k = 5 -> l.bullet # "" /\ ~l.bold /\ l.bracket /\ l.sep
         [] k = 6 -> ~l.bold /\ l.bracket /\ l.sep
         [] k = 7 -> ~l.bracket /\ l.sep
         [] k = 8 -> TRUE

\* The first rule of LINE_EXTRACTION_PATTERNS that matches; 0 when none does.
FirstPattern(l) == FindIndex({k \in 1..8 : PatternMatches(k, l)})

NoMatch == [matched |-> FALSE, lineNumber |-> 0,
            issueType |-> TypeText("", ""), description |-> Desc("", FALSE)]

\* Rule 8 captures the whole rest of the line as type and description;
\* rule 7 leaves the closing "**" of a bold line in the type.
extractLineFromText(l) ==
    LET k == FirstPattern(l) IN
    IF k = 0 THEN NoMatch
    ELSE [matched |-> TRUE,
          lineNumber |-> ParseInt(l.num),
          issueType |-> IF k = 8 THEN TypeText(l.desc.text, "")
                        ELSE IF k = 7 /\ l.bold THEN TypeText(l.type, "**")
                        ELSE TypeText(l.type, ""),
          description |-> Trim(l.desc)]

\* SEVERITY_CONFIG.VALID and SEVERITY_CONFIG.DEFAULT
normalizeSeverity_CaseSensitive(severity) ==
    IF severity \in Severities THEN severity ELSE "medium"

normalizeSeverity(severity) ==
    IF ToLower(severity) \in Severities THEN ToLower(severity) ELSE "medium"

\* ISSUE_TYPE_CONFIG, in the order Object.entries yields it; fixes are the
\* keyword-specific fixes in their order, fixDefault is fixes.default.
ISSUE_TYPE_CONFIG ==
    << [key |-> "security", type |-> "Security Issue",
        keywords |-> {"security", "vulnerability", "credential", "password", "injection", "unauthorized"},
        fixes |-> << <<"password", "Move sensitive data to environment variables or secure configuration">>,
                     <<"injection", "Use parameterized queries and proper input validation">> >>,
        fixDefault |-> "Review security implications and implement appropriate safeguards"],
       [key |-> "performance", type |-> "Performance Issue",
        keywords |-> {"performance", "slow", "inefficient", "optimization", "memory"},
        fixes |-> << <<"loop", "Consider using more efficient data structures or algorithms">>,
                     <<"query", "Optimize database queries and add proper indexing">>,
                     <<"memory", "Optimize memory usage and avoid unnecessary object creation">> >>,
        fixDefault |-> "Profile and optimize the performance bottleneck"],
       [key |-> "logic", type |-> "Logic Issue",
        keywords |-> {"logic", "bug", "null", "exception", "error", "crash", "incomplete update", "dead code"},
        fixes |-> << <<"null", "Add null checks or use optional chaining">>,
                     <<"exception", "Add proper error handling with try-catch blocks">> >>,
        fixDefault |-> "Review the logic and add appropriate safeguards"],
       [key |-> "codeQuality", type |-> "Code Quality",
        keywords |-> {"code quality", "quality", "style", "naming", "convention", "maintainability", "readability", "unclear"},
        fixes |-> << <<"naming", "Use more descriptive and conventional naming">>,
                     <<"method", "Break down into smaller, more focused methods">> >>,
        fixDefault |-> "Refactor to improve code clarity and maintainability"],
       [key |-> "cleanup", type |-> "Code Cleanup",
        keywords |-> {"unused import", "import", "unused", "dead code"},
        fixes |-> << <<"import", "Remove the unused import statement">> >>,
        fixDefault |-> "Remove the unused code or provide proper documentation explaining its purpose"],
       [key |-> "documentation", type |-> "Documentation",
        keywords |-> {"documentation", "comment", "javadoc", "docs"},
        fixes |-> << >>,
        fixDefault |-> "Add comprehensive documentation explaining the purpose and usage"],
       [key |-> "businessLogic", type |-> "Business Logic",
        keywords |-> {"business logic", "business", "functional"},
        fixes |-> << <<"price", "Verify if this business logic change is intentional and document the reasoning">> >>,
        fixDefault |-> "Review the business logic change and ensure it meets requirements"] >>

\* keywords.some(keyword => lowerText.includes(keyword))
matchesKeywords(text, keywords) == WordsIn(ToLower(text)) \cap keywords # {}

\* Index of the first category whose keywords occur in the type or in the
\* description; 0 when there is none.
MatchingCategory(issueType, description) ==
    FindIndex({c \in 1..Len(ISSUE_TYPE_CONFIG) :
        \/ matchesKeywords(ToLower(issueType), ISSUE_TYPE_CONFIG[c].keywords)
        \/ matchesKeywords(ToLower(description), ISSUE_TYPE_CONFIG[c].keywords)})

analyzeIssueTypeAndIcon(issueType, description) ==
    LET c == MatchingCategory(issueType, description) IN
    IF c = 0 THEN "Code Review" ELSE ISSUE_TYPE_CONFIG[c].type

generateFixSuggestion(issueType, description) ==
    LET lowerType == ToLower(issueType)
        lowerDesc == ToLower(description)
        c == MatchingCategory(issueType, description)
    IN
    IF "incomplete update" \in WordsIn(lowerType)
    THEN "Complete the update by including all necessary field modifications or add proper validation"
    ELSE IF "code smell" \in WordsIn(lowerType) /\ "tempmethod" \in WordsIn(lowerDesc)
    THEN "Remove the method if not needed, or rename it to be more descriptive and add proper documentation"
    ELSE IF c = 0 THEN "Review and address the identified issue"
    ELSE LET fixes == ISSUE_TYPE_CONFIG[c].fixes
             f == FindIndex({k \in 1..Len(fixes) : fixes[k][1] \in WordsIn(lowerDesc)})
         IN IF f = 0 THEN ISSUE_TYPE_CONFIG[c].fixDefault ELSE fixes[f][2]

\* The default lookahead of parseAdditionalInfo.
maxLookAhead == 10

IsBlank(l) == TrimmedLength(l) = 0

\* nextLine.match(/^\s*-?\s*\*?\*?Fix:?\*?\*?\s*/i)
MatchesFix(l) == l.kind = "FIX"

\* nextLine.match(/^\s*-?\s*\*?\*?Severity:?\*?\*?\s*/i)
MatchesSeverity(l) == l.kind = "SEV"

\* nextLine.match(/^\s*-\s*\*\*Line\s+\d+/i): the dash-bullet bold shape only.
MatchesNextIssue(l) == l.kind = "ISSUE" /\ l.bullet = "-" /\ l.bold

DefaultInfo == [severity |-> "medium", fix |-> ""]

\* The loop of parseAdditionalInfo from position j (1-based) to endIndex.
RECURSIVE ScanAdditionalInfo(_, _, _, _)
ScanAdditionalInfo(lines, j, endIndex, info) ==
    IF j > endIndex THEN info
    ELSE IF IsBlank(lines[j]) THEN ScanAdditionalInfo(lines, j + 1, endIndex, info)
    ELSE IF MatchesFix(lines[j])
         THEN ScanAdditionalInfo(lines, j + 1, endIndex, [info EXCEPT !.fix = lines[j].text])
    ELSE IF MatchesSeverity(lines[j])
         THEN ScanAdditionalInfo(lines, j + 1, endIndex,
                  [info EXCEPT !.severity = normalizeSeverity(lines[j].word)])
    ELSE IF MatchesNextIssue(lines[j]) THEN info
    ELSE ScanAdditionalInfo(lines, j + 1, endIndex, info)

\* startIndex is the 1-based position of the issue line; the JavaScript
\* loop runs over the 0-based positions startIndex + 1 .. endIndex - 1.
parseAdditionalInfo(lines, startIndex) ==
    ScanAdditionalInfo(lines, startIndex + 1,
                       Min(startIndex - 1 + maxLookAhead, Len(lines)), DefaultInfo)

\* The record pushed for a matching line (lines 625-633).
LegacyIssue(lines, i) ==
    LET extracted == extractLineFromText(lines[i])
        additionalInfo == parseAdditionalInfo(lines, i)
    IN [line |-> extracted.lineNumber,
        type |-> analyzeIssueTypeAndIcon(extracted.issueType.text, extracted.description.text),
        severity |-> additionalInfo.severity,
        problem |-> extracted.description,
        fix |-> IF additionalInfo.fix # "" THEN additionalInfo.fix
                ELSE generateFixSuggestion(extracted.issueType.text, extracted.description.text),
        originalType |-> extracted.issueType]

\* `if (!line || line.length < 10) continue` and
\* `if (!extracted || extracted.lineNumber <= 0) continue`
SkipsLine(l) ==
    \/ TrimmedLength(l) < 10
    \/ ~extractLineFromText(l).matched
    \/ extractLineFromText(l).lineNumber <= 0

\* The loop of extractLineSpecificIssuesLegacy from position i on.
RECURSIVE CollectIssues(_, _)
CollectIssues(lines, i) ==
    IF i > Len(lines) THEN <<>>
    ELSE (IF SkipsLine(lines[i]) THEN <<>> ELSE <<LegacyIssue(lines, i)>>)
         \o CollectIssues(lines, i + 1)

SameFinding(a, b) == a.line = b.line /\ a.problem = b.problem

\* The duplicate filter that keeps the last occurrence.
RemoveDuplicates_KeepLast(issues) ==
    LET keep == {i \in 1..Len(issues) :
                    \A k \in 1..Len(issues) : SameFinding(issues[k], issues[i]) => k <= i}
        ith(n) == CHOOSE i \in keep : Cardinality({k \in keep : k <= i}) = n
    IN [n \in 1..Cardinality(keep) |-> issues[ith(n)]]

\* issues.filter((issue, index, self) => index === self.findIndex(i =>
\*     i.line === issue.line && i.problem === issue.problem))
RemoveDuplicates(issues) ==
    LET keep == {i \in 1..Len(issues) :
                    i = FindIndex({k \in 1..Len(issues) : SameFinding(issues[k], issues[i])})}
        ith(n) == CHOOSE i \in keep : Cardinality({k \in keep : k <= i}) = n
    IN [n \in 1..Cardinality(keep) |-> issues[ith(n)]]

\* .sort((a, b) => a.line - b.line), a stable sort.
RECURSIVE InsertByLine(_, _)
InsertByLine(x, sorted) ==
    IF sorted = <<>> THEN <<x>>
    ELSE IF sorted[Len(sorted)].line - x.line > 0
         THEN Append(InsertByLine(x, SubSeq(sorted, 1, Len(sorted) - 1)), sorted[Len(sorted)])
         ELSE Append(sorted, x)

RECURSIVE SortByLine(_)
SortByLine(issues) ==
    IF issues = <<>> THEN <<>>
    ELSE InsertByLine(issues[Len(issues)], SortByLine(SubSeq(issues, 1, Len(issues) - 1)))

extractLineSpecificIssuesLegacy(aiAnalysis) ==
    IF IsEmptyText(aiAnalysis) THEN <<>>
    ELSE SortByLine(RemoveDuplicates(CollectIssues(aiAnalysis, 1)))

\* keyFindings as postLineSpecificIssues receives it: null (the default of
\* the parameter), or the findings object with its lineSpecificIssues.
NullKeyFindings == [isNull |-> TRUE, lineSpecificIssues |-> <<>>]
KeyFindings(items) == [isNull |-> FALSE, lineSpecificIssues |-> items]

\* An element of keyFindings.lineSpecificIssues, as extractLineSpecificIssue
\* builds it: the description trimmed, the severity one of the capitalised
\* names extractSeverity returns.
KeyFindingIssue(ln, type, description, severity) ==
    [isString |-> FALSE, line |-> ln, type |-> type,
     description |-> description, severity |-> severity]

KeyFindingIssues ==
    {KeyFindingIssue(ln, td[1], Trim(td[2]), sev) :
        ln \in 1..MaxLineNo, td \in TypedDescs, sev \in {"High", "Low"}}

processIssueFromKeyFindings(issue) ==
    [line |-> issue.line,
     type |-> analyzeIssueTypeAndIcon(issue.type, issue.description.text),
     severity |-> normalizeSeverity(issue.severity),
     problem |-> IF issue.description.text # "" THEN issue.description
                 ELSE Desc("Issue identified", FALSE),
     fix |-> generateFixSuggestion(issue.type, issue.description.text),
     originalType |-> TypeText(issue.type, "")]

\* The issues array before the duplicate filter: the processed
\* lineSpecificIssues (lines 585-592).
ProcessedKeyFindings(findings) ==
    IF ~findings.isNull /\ Len(findings.lineSpecificIssues) > 0
    THEN [i \in 1..Len(findings.lineSpecificIssues) |->
              processIssueFromKeyFindings(findings.lineSpecificIssues[i])]
    ELSE <<>>

extractLineSpecificIssuesFromKeyFindings(findings, aiAnalysisText) ==
    LET issues == ProcessedKeyFindings(findings) IN
    IF Len(issues) = 0 /\ ~IsEmptyText(aiAnalysisText)
    THEN extractLineSpecificIssuesLegacy(aiAnalysisText)
    ELSE SortByLine(RemoveDuplicates(issues))

\* `if (keyFindings) ... else ...` of postLineSpecificIssues (lines 811-819).
ExtractedIssues(findings, aiAnalysis) ==
    IF ~findings.isNull
    THEN extractLineSpecificIssuesFromKeyFindings(findings, aiAnalysis)
    ELSE extractLineSpecificIssuesLegacy(aiAnalysis)

-----------------------------------------------------------------------------
(* File analysis: analyzeFileWithAI and extractKeyFindings.                *)

\* extractLineSpecificIssue recognizes a line that carries "<digits>:"
\* followed by text.
RecognizesLine(l) == l.kind = "ISSUE"

RecognizedIssue(l) == [isString |-> FALSE, line |-> ParseInt(l.num), text |-> l]

\* `item && item.length > 10`: an object has no length, and
\* `undefined > 10` is false.
PassesItemFilter(item) == item.isString /\ item.length > 10

\* extractKeyFindings, its lineSpecificIssues list: the recognized issues,
\* then the post-processing filter.
extractKeyFindings(analysis) ==
    LET recognized == SelectSeq(analysis, RecognizesLine)
        items == [i \in 1..Len(recognized) |-> RecognizedIssue(recognized[i])]
    IN KeyFindings(SelectSeq(items, PassesItemFilter))

ReviewComment(success, error, total, successful) ==
    [success |-> success, error |-> error,
     totalComments |-> total, successfulComments |-> successful]

\* createAnalysisResult without overrides.
AnalysisDefaults ==
    [success |-> FALSE, error |-> FALSE, skipped |-> FALSE,
     reviewComment |-> ReviewComment(FALSE, "Not processed", 0, 0)]

\* The result built without `success: true` among its overrides.
AnalysisSucceeded_DefaultFlags == AnalysisDefaults

\* The result analyzeFileWithAI builds from the response (lines 1300-1323).
AnalysisSucceeded == [AnalysisDefaults EXCEPT !.success = TRUE]

AnalysisSkipped ==
    [AnalysisDefaults EXCEPT !.success = TRUE, !.skipped = TRUE,
                             !.reviewComment = ReviewComment(FALSE, "File skipped", 0, 0)]

\* The result of the catch block (lines 1365-1381).
AnalysisFailed ==
    [AnalysisDefaults EXCEPT !.error = TRUE,
                             !.reviewComment = ReviewComment(FALSE, "Analysis failed", 0, 0)]

SuccessfulComments(commentResults) ==
    Cardinality({i \in 1..Len(commentResults) : commentResults[i].success})

\* analyzeFileWithAI up to the request to the model; a skipped file returns.
AnalyzeFileWithAI ==
    /\ anPc = "start"
    /\ \E skipFile \in BOOLEAN :
          IF skipFile
          THEN analysisResult' = AnalysisSkipped /\ anPc' = "done"
          ELSE analysisResult' = analysisResult /\ anPc' = "invoke"
    /\ UNCHANGED <<response, keyFindings, rcVars, pubVars>>

\* The model answered: findings are extracted, the result is built, and
\* postLineSpecificIssues is called when commenting is enabled.
AiInvokeResolves ==
    /\ anPc = "invoke"
    /\ keyFindings' = extractKeyFindings(response)
    /\ \E commenting \in BOOLEAN :
          IF commenting /\ AnalysisSucceeded.success
          THEN /\ analysisResult' = AnalysisSucceeded
               /\ anPc' = "commenting"
               /\ pubPc' = "called"
          ELSE /\ analysisResult' =
                     [AnalysisSucceeded EXCEPT
                         !.reviewComment = ReviewComment(FALSE, "Commenting disabled", 0, 0)]
               /\ anPc' = "done"
               /\ UNCHANGED pubPc
    /\ UNCHANGED <<response, rcVars, lineIssues, issuesToPost, postIdx, results>>

\* The request to the model failed after its retries: the catch block.
AiInvokeRejects ==
    /\ anPc = "invoke"
    /\ analysisResult' = AnalysisFailed
    /\ anPc' = "failed"
    /\ UNCHANGED <<response, keyFindings, rcVars, pubVars>>

\* postLineSpecificIssues, `Extract line issues` (lines 811-819).
ExtractLineIssues ==
    /\ pubPc = "called"
    /\ lineIssues' = ExtractedIssues(keyFindings, response)
    /\ pubPc' = "start"
    /\ UNCHANGED <<response, keyFindings, analysisResult, anPc,
                   rcVars, issuesToPost, postIdx, results>>

\* postLineSpecificIssues returned: reviewComment is filled in (1340-1348).
AnalysisCollectsComments ==
    /\ anPc = "commenting"
    /\ pubPc = "returned"
    /\ analysisResult' =
          [analysisResult EXCEPT
              !.reviewComment = ReviewComment(SuccessfulComments(results) > 0, "none",
                                              Len(results), SuccessfulComments(results))]
    /\ anPc' = "done"
    /\ UNCHANGED <<response, keyFindings, rcVars, pubVars>>

\* analyzeFilesInBatches, its statistics: what one result adds to
\* comments.successful (`totalComments || 1` when reviewComment.success).
StatsCommentsSuccessful(result) ==
    IF result.reviewComment.success
    THEN (IF result.reviewComment.totalComments # 0
          THEN result.reviewComment.totalComments ELSE 1)
    ELSE 0

\* processCodeCommitPullRequest, commentStats: what one result adds to
\* commentsPosted.
CommentsPosted(result) == IF result.reviewComment.success THEN 1 ELSE 0

DirectResponses == SeqsUpTo(ResponseLines, 1)

DirectKeyFindings ==
    {NullKeyFindings, KeyFindings(<<>>)}
    \cup {KeyFindings(items) : items \in SeqsUpTo(KeyFindingIssues, MaxKeyFindings)}

AnIdle ==
    /\ response = <<BlankLine>>
    /\ keyFindings = NullKeyFindings
    /\ analysisResult = AnalysisDefaults
    /\ anPc = "idle"

\* A file analysis about to start on a response the model will give, or a
\* direct call of postLineSpecificIssues.
AnInit ==
    /\ afterContent = RawText(MaxFileLines)
    /\ aiLine = 0
    /\ rcPc = "idle"
    /\ requests = <<>>
    /\ commentResult = NoResult
    /\ apiRejects = 0
    /\ lineIssues = <<>>
    /\ issuesToPost = <<>>
    /\ postIdx = 1
    /\ results = <<>>
    /\ analysisResult = AnalysisDefaults
    /\ \/ /\ anPc = "start"
          /\ pubPc = "idle"
          /\ response \in Responses
          /\ keyFindings = NullKeyFindings
       \/ /\ anPc = "direct"
          /\ pubPc = "called"
          /\ response \in DirectResponses
          /\ keyFindings \in DirectKeyFindings

AnNext ==
    \/ AnalyzeFileWithAI
    \/ AiInvokeResolves
    \/ AiInvokeRejects
    \/ ExtractLineIssues
    \/ AnalysisCollectsComments
    \/ (PubNext /\ UNCHANGED anVars)

-----------------------------------------------------------------------------
(* Repository indexer.  createEmbeddingsForRepo indexes a whole repository *)
(* into a Qdrant collection; updateEmbeddingsOnMerge re-indexes the files  *)
(* of a merged pull request into a Pinecone namespace through              *)
(* CodebaseEmbeddingService.  A store is the set of its points.            *)

Files == {"a.js", "b.js", "yarn.lock"}

\* The order in which getRepoFiles and listFiles return the files.
FileOrder == <<"a.js", "b.js", "yarn.lock">>

\* Content of a path that is not in the repository.
NoFile == "none"

FileContents == {"", "v1", "v2"}

RepoStates == [Files -> FileContents \cup {NoFile}]

RepoNames == {"repo", "my-repo"}

\* RecursiveCharacterTextSplitter.splitText: the chunks of a content.
splitText(content) ==
    CASE content = "v1" -> <<"k1", "k2">>
      [] content = "v2" -> <<"k1", "k3">>
      [] OTHER -> <<>>

\* crypto.createHash("md5").update(chunk).digest("hex")
Md5(chunk) ==
    CASE chunk = "k1" -> "d41"
      [] chunk = "k2" -> "9e2"
      [] chunk = "k3" -> "c07"

\* replace(/[^a-zA-Z0-9_-]/g, '_') on a path.
SanitizeId(path) ==
    CASE path = "a.js" -> "a_js"
      [] path = "b.js" -> "b_js"
      [] path = "yarn.lock" -> "yarn_lock"

\* The segments between the '_' of a name after
\* replace(/[\/:*?"<>|\s-]/g, '_').toLowerCase().
NameSegments(name) ==
    CASE name = "repo" -> <<"repo">>
      [] name = "my-repo" -> <<"my", "repo">>
      [] name = "my_repo" -> <<"my", "repo">>
      [] name = "main" -> <<"main">>
      [] name = "dev" -> <<"dev">>

\* `${repoName}_${branchName}` sanitized, as the sequence of its segments.
CollectionName(repoName, branchName) == NameSegments(repoName) \o NameSegments(branchName)

\* collectionName.split('_')[0], the value the delete filter matches
\* against payload.repository.
FilterRepository(collectionName) == Head(collectionName)

\* `${owner}_${repo}`.toLowerCase() with other characters replaced.
createNamespaceName(owner, repo) == <<owner, "_", repo>>

\* /\.lock$/, /yarn\.lock$/ and the other skipPatterns on the paths above.
shouldSkipFile(filePath) == filePath = "yarn.lock"

Point(id, source, chunkIndex, text, repository) ==
    [id |-> id, source |-> source, chunkIndex |-> chunkIndex,
     text |-> text, repository |-> repository]

\* uuidv4(): the n-th identifier drawn, different from all drawn before.
Uuid(n) == <<"uuid", n>>

createChunkId(namespace, filePath, chunkIndex, contentHash) ==
    <<namespace, SanitizeId(filePath), chunkIndex, contentHash>>

\* CodebaseEmbeddingService.processFile: the vectors of one file.
processFile(namespace, filePath, content) ==
    IF shouldSkipFile(filePath) THEN <<>>
    ELSE LET chunks == splitText(content) IN
         [i \in 1..Len(chunks) |->
             Point(createChunkId(namespace, filePath, i - 1, Md5(chunks[i])),
                   filePath, i - 1, chunks[i], namespace)]

\* The documents createEmbeddingsForRepo builds from the files it was given,
\* each with a fresh uuid; empty files are skipped.
RECURSIVE BuildDocuments(_, _, _, _)
BuildDocuments(order, content, repoName, nextId) ==
    IF order = <<>> THEN <<>>
    ELSE LET f == Head(order)
             chunks == IF content[f] = NoFile \/ content[f] = "" THEN <<>>
                       ELSE splitText(content[f])
             docs == [i \in 1..Len(chunks) |->
                         Point(Uuid(nextId + i - 1), f, i - 1, chunks[i], repoName)]
         IN docs \o BuildDocuments(Tail(order), content, repoName, nextId + Len(chunks))

\* The documents without the one whose embedding failed (0: none failed).
WithoutFailed(docs, failed) ==
    [i \in 1..(Len(docs) - (IF failed = 0 THEN 0 ELSE 1)) |->
        IF failed = 0 \/ i < failed THEN docs[i] ELSE docs[i + 1]]

\* The batch size of the upsert loop.  The code's batches hold 100 points;
\* the repositories of the model hold at most 6 chunks, and the batch size
\* is scaled down with them so that a run has several batches.
batchSize == 2

\* The return value of createEmbeddingsForRepo.
Summary(files, skippedFiles, embeddings, failedEmbeddings) ==
    [filesIndexed |-> files - skippedFiles, chunksEmbedded |-> embeddings,
     skippedFiles |-> skippedFiles, failedEmbeddings |-> failedEmbeddings]

\* The locals of a run of createEmbeddingsForRepo: files.length,
\* skippedFiles.length, embeddings.length, failedEmbeddings.length, the
\* batches handed to qdrant.upsert so far (index i of the loop, batch
\* length, whether the call resolved), and how the run ended.
NoRun ==
    [files |-> 0, skippedFiles |-> 0, embeddings |-> 0, failedEmbeddings |-> 0,
     attempts |-> <<>>, outcome |-> "none", summary |-> Summary(0, 0, 0, 0)]

PointIds(points) == {p.id : p \in points}

SeqToSet(q) == {q[i] : i \in 1..Len(q)}

\* upsert: a point replaces the stored point with its id.
Upsert(points, batch) ==
    {p \in points : p.id \notin PointIds(SeqToSet(batch))} \cup SeqToSet(batch)

\* A set of files as the sequence in FileOrder.
InFileOrder(fileSet) == SelectSeq(FileOrder, LAMBDA f : f \in fileSet)

\* What a pass read: the repository content and the files it processed.
Read(content, processed) == [content |-> content, files |-> processed]

LastRead ==
    IF reads = <<>> THEN Read([f \in Files |-> NoFile], {})
    ELSE reads[Len(reads)]

\* The batch the upsert loop is at: points.slice(i, i + batchSize).
BatchStart == ixRun.embeddings - Len(ixDocs)
BatchLength == Min(batchSize, Len(ixDocs))
Attempt(ok) == [i |-> BatchStart, length |-> BatchLength, ok |-> ok]

\* The two createEmbeddingsForRepo of the repository: the one that clears
\* an existing collection, and the one that first retrieves the files and
\* stores into the collection as it is.
ClearsCollection == ixMode = "repo"

\* A run of createEmbeddingsForRepo(ixRepo, "main") starts.
StartCreateEmbeddings ==
    /\ ixPc = "idle"
    /\ ixMode \in {"repo", "repoNoClear"}
    /\ Len(snaps) < MaxPasses
    /\ ixPc' = IF ClearsCollection THEN "getCollection" ELSE "files"
    /\ UNCHANGED <<repoContent, store, collExists, uuidNext, ixMode, ixRepo,
                   ixDocs, ixQueue, reads, snaps, faults>>
    /\ ixRun' = [NoRun EXCEPT !.outcome = "running"]

\* qdrant.getCollection resolved: the collection exists and is cleared next.
GetCollectionFound ==
    /\ ixPc = "getCollection"
    /\ collExists
    /\ ixPc' = IF ClearsCollection THEN "clear" ELSE "upsert"
    /\ UNCHANGED <<repoContent, store, collExists, uuidNext, ixMode, ixRepo,
                   ixDocs, ixQueue, reads, snaps, faults>>
    /\ UNCHANGED ixRun

\* qdrant.getCollection answered 404: the collection is created.
GetCollectionNotFound ==
    /\ ixPc = "getCollection"
    /\ ~collExists
    /\ collExists' = TRUE
    /\ store' = {}
    /\ ixPc' = IF ClearsCollection THEN "files" ELSE "upsert"
    /\ UNCHANGED <<repoContent, uuidNext, ixMode, ixRepo, ixDocs, ixQueue,
                   reads, snaps, faults>>
    /\ UNCHANGED ixRun

\* clearCollectionSafely, method 1: the collection is deleted and recreated.
ClearDropRecreate ==
    /\ ixPc = "clear"
    /\ store' = {}
    /\ ixPc' = "files"
    /\ UNCHANGED <<repoContent, collExists, uuidNext, ixMode, ixRepo, ixDocs,
                   ixQueue, reads, snaps, faults>>
    /\ UNCHANGED ixRun

\* Method 1 failed; method 2 deletes the points whose payload.repository is
\* the first segment of the collection name.
ClearByFilter ==
    /\ ixPc = "clear"
    /\ faults < MaxFaults
    /\ faults' = faults + 1
    /\ store' = {p \in store :
                    p.repository # FilterRepository(CollectionName(ixRepo, "main"))}
    /\ ixPc' = "files"
    /\ UNCHANGED <<repoContent, collExists, uuidNext, ixMode, ixRepo, ixDocs,
                   ixQueue, reads, snaps>>
    /\ UNCHANGED ixRun

\* Methods 1 and 2 failed; method 3 scrolls through the points and deletes
\* them.
ClearByScroll ==
    /\ ixPc = "clear"
    /\ faults < MaxFaults
    /\ faults' = faults + 1
    /\ store' = {}
    /\ ixPc' = "files"
    /\ UNCHANGED <<repoContent, collExists, uuidNext, ixMode, ixRepo, ixDocs,
                   ixQueue, reads, snaps>>
    /\ UNCHANGED ixRun

\* All three methods failed: the run proceeds with the existing data.
ClearFails ==
    /\ ixPc = "clear"
    /\ faults < MaxFaults
    /\ faults' = faults + 1
    /\ ixPc' = "files"
    /\ UNCHANGED <<repoContent, store, collExists, uuidNext, ixMode, ixRepo,
                   ixDocs, ixQueue, reads, snaps>>
    /\ UNCHANGED ixRun

\* File retrieval, chunking and embedding: the documents to store.  At most
\* one embedding fails; its document is left out.
ProcessFiles ==
    /\ ixPc = "files"
    /\ LET docs == BuildDocuments(FileOrder, repoContent, ixRepo, uuidNext) IN
       /\ uuidNext' = uuidNext + Len(docs)
       /\ \E failed \in 0..Len(docs) :
             /\ failed # 0 => faults < MaxFaults
             /\ faults' = IF failed = 0 THEN faults ELSE faults + 1
             /\ ixDocs' = WithoutFailed(docs, failed)
             /\ ixRun' = [ixRun EXCEPT
                    !.files = Cardinality({f \in Files : repoContent[f] # NoFile}),
                    !.skippedFiles = Cardinality({f \in Files : repoContent[f] = ""}),
                    !.embeddings = Len(WithoutFailed(docs, failed)),
                    !.failedEmbeddings = IF failed = 0 THEN 0 ELSE 1]
    /\ reads' = Append(reads, Read(repoContent, {f \in Files : repoContent[f] # NoFile}))
    /\ ixPc' = IF ClearsCollection THEN "upsert" ELSE "getCollection"
    /\ UNCHANGED <<repoContent, store, collExists, ixMode, ixRepo, ixQueue, snaps>>

\* qdrant.upsert of the next batch resolved.
UpsertBatchResolves ==
    /\ ixPc = "upsert"
    /\ ixDocs # <<>>
    /\ store' = Upsert(store, SubSeq(ixDocs, 1, Min(batchSize, Len(ixDocs))))
    /\ ixDocs' = SubSeq(ixDocs, Min(batchSize, Len(ixDocs)) + 1, Len(ixDocs))
    /\ UNCHANGED <<repoContent, collExists, uuidNext, ixMode, ixRepo, ixPc,
                   ixQueue, reads, snaps, faults>>
    /\ ixRun' = [ixRun EXCEPT !.attempts = Append(@, Attempt(TRUE))]

\* qdrant.upsert of the next batch rejected: logged, the loop goes on.
UpsertBatchRejects ==
    /\ ixPc = "upsert"
    /\ ClearsCollection
    /\ ixDocs # <<>>
    /\ faults < MaxFaults
    /\ faults' = faults + 1
    /\ ixDocs' = SubSeq(ixDocs, Min(batchSize, Len(ixDocs)) + 1, Len(ixDocs))
    /\ UNCHANGED <<repoContent, store, collExists, uuidNext, ixMode, ixRepo,
                   ixPc, ixQueue, reads, snaps>>
    /\ ixRun' = [ixRun EXCEPT !.attempts = Append(@, Attempt(FALSE))]

\* Without the per-batch catch the rejection ends the run: the error is
\* thrown to the caller and the remaining batches are not stored.
UpsertBatchThrows ==
    /\ ixPc = "upsert"
    /\ ~ClearsCollection
    /\ ixDocs # <<>>
    /\ faults < MaxFaults
    /\ faults' = faults + 1
    /\ ixDocs' = <<>>
    /\ snaps' = Append(snaps, store)
    /\ ixPc' = "idle"
    /\ UNCHANGED <<repoContent, store, collExists, uuidNext, ixMode, ixRepo,
                   ixQueue, reads>>
    /\ ixRun' = [ixRun EXCEPT !.attempts = Append(@, Attempt(FALSE)), !.outcome = "threw"]

\* The upsert loop is over: the summary is returned.
ReturnSummary ==
    /\ ixPc = "upsert"
    /\ ixDocs = <<>>
    /\ snaps' = Append(snaps, store)
    /\ ixPc' = "idle"
    /\ UNCHANGED <<repoContent, store, collExists, uuidNext, ixMode, ixRepo,
                   ixDocs, ixQueue, reads, faults>>
    /\ ixRun' = [ixRun EXCEPT !.outcome = "returned",
                          !.summary = Summary(ixRun.files, ixRun.skippedFiles,
                                              ixRun.embeddings, ixRun.failedEmbeddings)]

\* updateEmbeddingsOnMerge starts: listFiles returns the files that differ
\* from the last merged state, or (the event delivered again) the files of
\* the last pass.
StartUpdateOnMerge ==
    /\ ixPc = "idle"
    /\ ixMode = "merge"
    /\ Len(snaps) < MaxPasses
    /\ \E redelivered \in BOOLEAN :
          LET prFiles == IF redelivered THEN LastRead.files
                         ELSE {f \in Files : repoContent[f] # LastRead.content[f]}
          IN /\ ixQueue' = InFileOrder(prFiles)
             /\ reads' = Append(reads, Read(repoContent, prFiles))
    /\ ixPc' = "mergeDelete"
    /\ UNCHANGED <<repoContent, store, collExists, uuidNext, ixMode, ixRepo,
                   ixDocs, snaps, faults>>
    /\ UNCHANGED ixRun

\* After deleteFileEmbeddings: a removed file is done, another is upserted.
AfterDelete(f) == IF repoContent[f] = NoFile THEN "mergeDelete" ELSE "mergeUpsert"

\* deleteFileEmbeddings of the next file: query by filePath and deleteMany.
DeleteFileEmbeddingsResolves ==
    /\ ixPc = "mergeDelete"
    /\ ixQueue # <<>>
    /\ store' = {p \in store : p.source # Head(ixQueue)}
    /\ ixPc' = AfterDelete(Head(ixQueue))
    /\ ixQueue' = IF repoContent[Head(ixQueue)] = NoFile THEN Tail(ixQueue) ELSE ixQueue
    /\ UNCHANGED <<repoContent, collExists, uuidNext, ixMode, ixRepo, ixDocs,
                   reads, snaps, faults>>
    /\ UNCHANGED ixRun

\* The query or the deleteMany rejected: logged, nothing deleted.
DeleteFileEmbeddingsRejects ==
    /\ ixPc = "mergeDelete"
    /\ ixQueue # <<>>
    /\ faults < MaxFaults
    /\ faults' = faults + 1
    /\ ixPc' = AfterDelete(Head(ixQueue))
    /\ ixQueue' = IF repoContent[Head(ixQueue)] = NoFile THEN Tail(ixQueue) ELSE ixQueue
    /\ UNCHANGED <<repoContent, store, collExists, uuidNext, ixMode, ixRepo,
                   ixDocs, reads, snaps>>
    /\ UNCHANGED ixRun

\* processFile and upsertVectors of the file: its vectors are written.
UpsertVectorsResolves ==
    /\ ixPc = "mergeUpsert"
    /\ store' = Upsert(store, processFile(createNamespaceName("owner", ixRepo),
                                          Head(ixQueue), repoContent[Head(ixQueue)]))
    /\ ixQueue' = Tail(ixQueue)
    /\ ixPc' = "mergeDelete"
    /\ UNCHANGED <<repoContent, collExists, uuidNext, ixMode, ixRepo, ixDocs,
                   reads, snaps, faults>>
    /\ UNCHANGED ixRun

\* index.upsert rejected: logged, nothing written.
UpsertVectorsRejects ==
    /\ ixPc = "mergeUpsert"
    /\ processFile(createNamespaceName("owner", ixRepo),
                   Head(ixQueue), repoContent[Head(ixQueue)]) # <<>>
    /\ faults < MaxFaults
    /\ faults' = faults + 1
    /\ ixQueue' = Tail(ixQueue)
    /\ ixPc' = "mergeDelete"
    /\ UNCHANGED <<repoContent, store, collExists, uuidNext, ixMode, ixRepo,
                   ixDocs, reads, snaps>>
    /\ UNCHANGED ixRun

\* Every file of the pull request is done.
UpdateOnMergeReturns ==
    /\ ixPc = "mergeDelete"
    /\ ixQueue = <<>>
    /\ snaps' = Append(snaps, store)
    /\ ixPc' = "idle"
    /\ UNCHANGED <<repoContent, store, collExists, uuidNext, ixMode, ixRepo,
                   ixDocs, ixQueue, reads, faults>>
    /\ UNCHANGED ixRun

\* Between two passes a commit changes, adds or removes one file.
RepoChanges ==
    /\ ixPc = "idle"
    /\ Len(snaps) >= 1
    /\ Len(snaps) < MaxPasses
    /\ \E f \in Files, c \in FileContents \cup {NoFile} :
          /\ c # repoContent[f]
          /\ repoContent' = [repoContent EXCEPT ![f] = c]
    /\ UNCHANGED <<store, collExists, uuidNext, ixMode, ixRepo, ixPc, ixDocs,
                   ixQueue, reads, snaps, faults>>
    /\ UNCHANGED ixRun

IxInit ==
    /\ repoContent \in RepoStates
    /\ store = {}
    /\ collExists = FALSE
    /\ uuidNext = 1
    /\ ixMode \in {"repo", "repoNoClear", "merge"}
    /\ ixRepo \in RepoNames
    /\ ixPc = "idle"
    /\ ixDocs = <<>>
    /\ ixQueue = <<>>
    /\ reads = <<>>
    /\ snaps = <<>>
    /\ faults = 0
    /\ ixRun = NoRun

IxIdle ==
    /\ repoContent = [f \in Files |-> NoFile]
    /\ store = {}
    /\ collExists = FALSE
    /\ uuidNext = 1
    /\ ixMode = "none"
    /\ ixRepo = "repo"
    /\ ixPc = "idle"
    /\ ixDocs = <<>>
    /\ ixQueue = <<>>
    /\ reads = <<>>
    /\ snaps = <<>>
    /\ faults = 0
    /\ ixRun = NoRun

IxNext ==
    \/ StartCreateEmbeddings
    \/ GetCollectionFound
    \/ GetCollectionNotFound
    \/ ClearDropRecreate
    \/ ClearByFilter
    \/ ClearByScroll
    \/ ClearFails
    \/ ProcessFiles
    \/ UpsertBatchResolves
    \/ UpsertBatchRejects
    \/ UpsertBatchThrows
    \/ ReturnSummary
    \/ StartUpdateOnMerge
    \/ DeleteFileEmbeddingsResolves
    \/ DeleteFileEmbeddingsRejects
    \/ UpsertVectorsResolves
    \/ UpsertVectorsRejects
    \/ UpdateOnMergeReturns
    \/ RepoChanges

-----------------------------------------------------------------------------
(* Knowledge base: several (repository, branch) pairs indexed into Qdrant  *)
(* by createEmbeddingsForRepo and queried by getRelevantContext.           *)

\* Repository and branch names as CodeCommit allows them.
KbRepositories == {"repo", "my-repo", "my_repo"}
KbBranches == {"main", "dev"}
Identities == KbRepositories \X KbBranches

KbCollectionNames == {CollectionName(id[1], id[2]) : id \in Identities}

\* The payload of a stored point.
Payload(text, source, repository, branch) ==
    [text |-> text, source |-> source, repository |-> repository, branch |-> branch]

\* The payloads createEmbeddingsForRepo stores for a repository whose one
\* file a.js has the given content.
PayloadsOf(id, content) ==
    {Payload(splitText(content)[i], "a.js", id[1], id[2]) :
        i \in 1..Len(splitText(content))}

NoCollection == [exists |-> FALSE, points |-> {}]

NoContext == [asked |-> FALSE, repositoryName |-> "", branchName |-> "",
              hasContext |-> FALSE, contextChunks |-> {}]

\* The return value of getRelevantContext, with the arguments of the call.
ContextResult(id, chunks) ==
    [asked |-> TRUE, repositoryName |-> id[1], branchName |-> id[2],
     hasContext |-> chunks # {}, contextChunks |-> chunks]

\* createEmbeddingsForRepo(repoName, branchName) ran to its end with every
\* store operation resolving: the collection of the name is cleared or
\* created and holds the chunks of this repository.
KbCreateEmbeddings ==
    \E id \in Identities, content \in {"v1", "v2"} :
        /\ kbCollections' = [kbCollections EXCEPT ![CollectionName(id[1], id[2])] =
                                [exists |-> TRUE, points |-> PayloadsOf(id, content)]]
        /\ kbIndexed' = kbIndexed \cup {id}
        /\ UNCHANGED kbContext

\* getRelevantContext for a repository whose collection is not found (404).
GetRelevantContextNotIndexed ==
    \E id \in Identities :
        /\ ~kbCollections[CollectionName(id[1], id[2])].exists
        /\ kbContext' = ContextResult(id, {})
        /\ UNCHANGED <<kbCollections, kbIndexed>>

\* getRelevantContext: qdrant.search on the collection returns the points
\* whose score passes the threshold (any of its points); the chunks of the
\* file under review are left out.
GetRelevantContext ==
    \E id \in Identities, filename \in {"a.js", "b.js"} :
        /\ kbCollections[CollectionName(id[1], id[2])].exists
        /\ \E searchResults \in SUBSET kbCollections[CollectionName(id[1], id[2])].points :
              kbContext' = ContextResult(id, {c \in searchResults : c.source # filename})
        /\ UNCHANGED <<kbCollections, kbIndexed>>

KbInit ==
    /\ kbCollections = [n \in KbCollectionNames |-> NoCollection]
    /\ kbIndexed = {}
    /\ kbContext = NoContext

KbIdle == KbInit

KbNext ==
    \/ KbCreateEmbeddings
    \/ GetRelevantContextNotIndexed
    \/ GetRelevantContext

-----------------------------------------------------------------------------
(* Pull request processing: processCodeCommitPullRequest pages through the  *)
(* differences, classifies them, and hands the added and modified files to  *)
(* analyzeFilesInBatches; each analyzeFileWithAI calls the model client,    *)
(* whose invoke retries.                                                   *)

\* The paths of a pull request, in the order GetDifferences lists them.
PrPaths == <<"a.js", "logo.png", "b.js">>

\* ChangeTypeEnum of the CodeCommit API.
ChangeTypes == {"A", "M", "D"}

Difference(path, changeType) == [path |-> path, changeType |-> changeType]

\* The listings: each path absent or present with a change type.
RECURSIVE DifferenceLists(_)
DifferenceLists(paths) ==
    IF paths = <<>> THEN {<<>>}
    ELSE LET rest == DifferenceLists(Tail(paths)) IN
         rest \cup {<<Difference(Head(paths), t)>> \o r : t \in ChangeTypes, r \in rest}

\* A listing cut into n pages (a page may be empty).
RECURSIVE Pagings(_, _)
Pagings(diffs, n) ==
    IF n = 1 THEN {<<diffs>>}
    ELSE UNION {{<<SubSeq(diffs, 1, k)>> \o later :
                    later \in Pagings(SubSeq(diffs, k + 1, Len(diffs)), n - 1)} :
                k \in 0..Len(diffs)}

PagedListings ==
    UNION {Pagings(diffs, n) : diffs \in DifferenceLists(PrPaths), n \in 1..MaxPages}

\* const filePath = diff.afterBlob?.path || diff.beforeBlob?.path
FileEntry(diff) == [filename |-> diff.path, changeType |-> diff.changeType]

EmptyLists == [newFiles |-> <<>>, changedFiles |-> <<>>, deletedFiles |-> <<>>,
               totalDifferences |-> 0]

\* response.differences.forEach: one difference is pushed to its list.
Classify(lists, diff) ==
    IF diff.changeType = "A"
    THEN [lists EXCEPT !.newFiles = Append(@, FileEntry(diff))]
    ELSE IF diff.changeType = "M"
    THEN [lists EXCEPT !.changedFiles = Append(@, FileEntry(diff))]
    ELSE IF diff.changeType = "D"
    THEN [lists EXCEPT !.deletedFiles = Append(@, FileEntry(diff))]
    ELSE lists

RECURSIVE ClassifyPage(_, _)
ClassifyPage(lists, page) ==
    IF page = <<>> THEN lists
    ELSE ClassifyPage(Classify(lists, Head(page)), Tail(page))

\* The deleted files analyzed with the others.
allAnalyzableFiles_WithDeleted(lists) ==
    lists.newFiles \o lists.changedFiles \o lists.deletedFiles

\* const allAnalyzableFiles = [...newFiles, ...changedFiles]
allAnalyzableFiles(lists) == lists.newFiles \o lists.changedFiles

\* SKIP_PATTERNS of the analysis: non-code files.
SkipsAnalysis(filename) == filename = "logo.png"

NoPrSummary ==
    [returned |-> FALSE, totalFiles |-> 0, newFiles |-> 0, modifiedFiles |-> 0,
     deletedFiles |-> 0, analyzedFiles |-> 0, successfulAnalyses |-> 0,
     failedAnalyses |-> 0]

\* The summary of the early exit (only deletions).
EarlySummary(lists) ==
    [NoPrSummary EXCEPT !.returned = TRUE,
                        !.totalFiles = Len(lists.deletedFiles),
                        !.deletedFiles = Len(lists.deletedFiles)]

\* The summary after the analysis.
PrSummary(lists, analysisResults) ==
    [returned |-> TRUE,
     totalFiles |-> Len(lists.newFiles) + Len(lists.changedFiles) + Len(lists.deletedFiles),
     newFiles |-> Len(lists.newFiles),
     modifiedFiles |-> Len(lists.changedFiles),
     deletedFiles |-> Len(lists.deletedFiles),
     analyzedFiles |-> Len(analysisResults),
     successfulAnalyses |->
         Cardinality({i \in 1..Len(analysisResults) : analysisResults[i].result.success}),
     failedAnalyses |->
         Cardinality({i \in 1..Len(analysisResults) : analysisResults[i].result.error})]

\* The model clients.
AiClients == {"gemini", "anthropic", "ollama"}

maxRetries == 3

\* The batch size processCodeCommitPullRequest passes to analyzeFilesInBatches.
analysisBatchSize == 2

RECURSIVE Pow(_, _)
Pow(b, e) == IF e = 0 THEN 1 ELSE b * Pow(b, e - 1)

\* The wait before the next attempt, in ms, after the attempt-th failure.
backoffTime(client, attempt, rateLimit) ==
    IF client = "ollama" THEN 2000 * attempt
    ELSE IF rateLimit THEN Pow(4, attempt) * 500
    ELSE Pow(2, attempt) * 1000

\* A loop that allows one attempt more.
RetriesLeft_OneMore(attempt) == attempt <= maxRetries

\* `attempt < maxRetries` after the increment: another attempt follows.
RetriesLeft(attempt) == attempt < maxRetries

\* One analyzeFileWithAI call: its file, its position, the attempt counter
\* of invoke, the client calls made and the waits taken so far.
Task(file) ==
    [file |-> file, pc |-> "start", attempt |-> 0, calls |-> 0, waits |-> <<>>,
     settled |-> "pending", result |-> AnalysisDefaults]

\* A join that resolves as soon as one promise of the batch has settled.
AllSettled_Any(batch) == \E i \in 1..Len(batch) : batch[i].pc = "done"

\* Promise.allSettled(batchPromises) resolves when every promise has settled.
AllSettled(batch) == \A i \in 1..Len(batch) : batch[i].pc = "done"

\* A fallback that does not mark the result as an error.
FallbackResult_NoError == AnalysisDefaults

\* createAnalysisResult(batch[index], {analysis: 'Batch processing failed',
\* error: true}).
FallbackResult == [AnalysisDefaults EXCEPT !.error = TRUE]

\* batchResults.forEach: the value of a fulfilled promise, the fallback for
\* a rejected one.
BatchResult(task) ==
    IF task.settled = "fulfilled" THEN task ELSE [task EXCEPT !.result = FallbackResult]

\* The statistics analyzeFilesInBatches reduces its results to.
Stats(analysisResults) ==
    LET R(i) == analysisResults[i].result
        n == 1..Len(analysisResults)
    IN [successful |-> Cardinality({i \in n : R(i).success /\ ~R(i).skipped}),
        skipped |-> Cardinality({i \in n : ~(R(i).success /\ ~R(i).skipped) /\ R(i).skipped}),
        failed |-> Cardinality({i \in n : /\ ~(R(i).success /\ ~R(i).skipped)
                                           /\ ~R(i).skipped
                                           /\ R(i).error})]

Wait(attempt, rateLimit, ms) == [attempt |-> attempt, rateLimit |-> rateLimit, ms |-> ms]

\* GetDifferences resolves with the next page; without a nextToken the
\* loop ends.
GetDifferencesResolves ==
    /\ prPc = "differences"
    /\ prPageIdx < Len(prPages)
    /\ prPageIdx' = prPageIdx + 1
    /\ prLists' = [ClassifyPage(prLists, prPages[prPageIdx + 1]) EXCEPT
                      !.totalDifferences = @ + Len(prPages[prPageIdx + 1])]
    /\ prPc' = IF prPageIdx + 1 < Len(prPages) THEN "differences" ELSE "classified"
    /\ UNCHANGED <<prClient, prPages, prQueue, prBatch, prResults, prSummary>>

\* GetDifferences rejects: the error is logged and rethrown.
GetDifferencesRejects ==
    /\ prPc = "differences"
    /\ prPageIdx < Len(prPages)
    /\ prPc' = "threw"
    /\ UNCHANGED <<prClient, prPages, prPageIdx, prLists, prQueue, prBatch,
                   prResults, prSummary>>

\* Only deletions (or nothing): the early return.
ReturnWithoutAnalysis ==
    /\ prPc = "classified"
    /\ allAnalyzableFiles(prLists) = <<>>
    /\ prSummary' = EarlySummary(prLists)
    /\ prPc' = "done"
    /\ UNCHANGED <<prClient, prPages, prPageIdx, prLists, prQueue, prBatch, prResults>>

\* analyzeFilesInBatches is called with the added and modified files.
CallAnalyzeFilesInBatches ==
    /\ prPc = "classified"
    /\ allAnalyzableFiles(prLists) # <<>>
    /\ prQueue' = allAnalyzableFiles(prLists)
    /\ prPc' = "analyze"
    /\ UNCHANGED <<prClient, prPages, prPageIdx, prLists, prBatch, prResults, prSummary>>

\* files.slice(i, i + batchSize): the calls of the next batch are started.
StartBatch ==
    /\ prPc = "analyze"
    /\ prBatch = <<>>
    /\ prQueue # <<>>
    /\ prBatch' = [i \in 1..Min(analysisBatchSize, Len(prQueue)) |-> Task(prQueue[i])]
    /\ prQueue' = SubSeq(prQueue, Min(analysisBatchSize, Len(prQueue)) + 1, Len(prQueue))
    /\ UNCHANGED <<prClient, prPages, prPageIdx, prLists, prPc, prResults, prSummary>>

\* analyzeFileWithAI up to the call of the client: a skipped file returns;
\* a failure to prepare content or prompt goes to the catch block, which
\* returns the failed result, or itself throws when the value thrown has no
\* `message` to read (the promise is rejected).
PrepareAnalysis ==
    \E i \in 1..Len(prBatch) :
        /\ prBatch[i].pc = "start"
        /\ \E prepared \in {"prepared", "threw", "catchThrew"} :
              prBatch' = [prBatch EXCEPT ![i] =
                  IF SkipsAnalysis(@.file.filename)
                  THEN [@ EXCEPT !.pc = "done", !.settled = "fulfilled",
                                 !.result = AnalysisSkipped]
                  ELSE IF prepared = "prepared" THEN [@ EXCEPT !.pc = "invoke"]
                  ELSE IF prepared = "threw"
                  THEN [@ EXCEPT !.pc = "done", !.settled = "fulfilled",
                                 !.result = AnalysisFailed]
                  ELSE [@ EXCEPT !.pc = "done", !.settled = "rejected"]]
        /\ UNCHANGED <<prClient, prPages, prPageIdx, prLists, prPc, prQueue,
                       prResults, prSummary>>

\* An attempt of invoke succeeds: the response is returned and analyzed.
InvokeAttemptResolves ==
    \E i \in 1..Len(prBatch) :
        /\ prBatch[i].pc = "invoke"
        /\ prBatch' = [prBatch EXCEPT ![i] =
              [@ EXCEPT !.calls = @ + 1, !.pc = "done", !.settled = "fulfilled",
                        !.result = AnalysisSucceeded]]
        /\ UNCHANGED <<prClient, prPages, prPageIdx, prLists, prPc, prQueue,
                       prResults, prSummary>>

\* An attempt of invoke fails: with attempts left the backoff wait starts,
\* otherwise invoke throws and analyzeFileWithAI returns the failed result.
InvokeAttemptRejects ==
    \E i \in 1..Len(prBatch), rateLimit \in BOOLEAN :
        /\ prBatch[i].pc = "invoke"
        /\ prBatch' = [prBatch EXCEPT ![i] =
              IF RetriesLeft(@.attempt + 1)
              THEN [@ EXCEPT !.calls = @ + 1, !.attempt = @ + 1, !.pc = "wait",
                             !.waits = Append(@, Wait(prBatch[i].attempt + 1, rateLimit,
                                    backoffTime(prClient, prBatch[i].attempt + 1, rateLimit)))]
              ELSE [@ EXCEPT !.calls = @ + 1, !.attempt = @ + 1, !.pc = "done",
                             !.settled = "fulfilled", !.result = AnalysisFailed]]
        /\ UNCHANGED <<prClient, prPages, prPageIdx, prLists, prPc, prQueue,
                       prResults, prSummary>>

\* The backoff timer fires: the loop continues with the next attempt.
BackoffElapsed ==
    \E i \in 1..Len(prBatch) :
        /\ prBatch[i].pc = "wait"
        /\ prBatch' = [prBatch EXCEPT ![i].pc = "invoke"]
        /\ UNCHANGED <<prClient, prPages, prPageIdx, prLists, prPc, prQueue,
                       prResults, prSummary>>

\* Promise.allSettled resolves: the results of the batch are pushed in order.
BatchSettled ==
    /\ prPc = "analyze"
    /\ prBatch # <<>>
    /\ AllSettled(prBatch)
    /\ prResults' = prResults \o [i \in 1..Len(prBatch) |-> BatchResult(prBatch[i])]
    /\ prBatch' = <<>>
    /\ UNCHANGED <<prClient, prPages, prPageIdx, prLists, prPc, prQueue, prSummary>>

\* analyzeFilesInBatches returned: the statistics and the return value.
ReturnPullRequestResult ==
    /\ prPc = "analyze"
    /\ prBatch = <<>>
    /\ prQueue = <<>>
    /\ prSummary' = PrSummary(prLists, prResults)
    /\ prPc' = "done"
    /\ UNCHANGED <<prClient, prPages, prPageIdx, prLists, prQueue, prBatch, prResults>>

PrInit ==
    /\ prClient \in AiClients
    /\ prPages \in PagedListings
    /\ prPageIdx = 0
    /\ prLists = EmptyLists
    /\ prPc = "differences"
    /\ prQueue = <<>>
    /\ prBatch = <<>>
    /\ prResults = <<>>
    /\ prSummary = NoPrSummary

PrIdle ==
    /\ prClient = "gemini"
    /\ prPages = <<>>
    /\ prPageIdx = 0
    /\ prLists = EmptyLists
    /\ prPc = "idle"
    /\ prQueue = <<>>
    /\ prBatch = <<>>
    /\ prResults = <<>>
    /\ prSummary = NoPrSummary

PrNext ==
    \/ GetDifferencesResolves
    \/ GetDifferencesRejects
    \/ ReturnWithoutAnalysis
    \/ CallAnalyzeFilesInBatches
    \/ StartBatch
    \/ PrepareAnalysis
    \/ InvokeAttemptResolves
    \/ InvokeAttemptRejects
    \/ BackoffElapsed
    \/ BatchSettled
    \/ ReturnPullRequestResult

-----------------------------------------------------------------------------
(* Webhook: POST /webhook suppresses duplicate pullRequestCreated events   *)
(* with the processedEvents map, which a periodic cleanup empties of old   *)
(* entries.                                                                *)

\* The code's CLEANUP_INTERVAL is one hour and its EVENT_TTL 24 hours; the
\* model clock keeps the order (several cleanups within one TTL, time
\* between two cleanups) with small numbers.
CLEANUP_INTERVAL == 2
EVENT_TTL == 4

\* The clock stops after an entry has expired and a cleanup has followed.
MaxTime == EVENT_TTL + CLEANUP_INTERVAL + 1

\* `${repositoryName}-${pullRequestId}-${sourceCommit}`
AppKeys == {"repo-1-c1", "repo-1-c2"}

\* req.headers['x-event-key'] || event.lambdaEventKey; "" when absent.
LambdaKeys == {"", "L1"}

EventTypes == {"pullRequestCreated", "pullRequestSourceBranchUpdated", ""}

WebhookEvent(eventType, appKey, lambdaEventKey) ==
    [eventType |-> eventType, appKey |-> appKey, lambdaEventKey |-> lambdaEventKey]

generateEventKey(event) == event.appKey

\* const eventKey = lambdaEventKey || appEventKey
EventKey(event) ==
    IF event.lambdaEventKey # "" THEN event.lambdaEventKey ELSE generateEventKey(event)

EventKeys == AppKeys \cup (LambdaKeys \ {""})

\* An entry of the map: its timestamp, and (for the properties) the
\* application key of the event that set it.
NoEntry == [has |-> FALSE, timestamp |-> 0, appKey |-> ""]
Entry(timestamp, appKey) == [has |-> TRUE, timestamp |-> timestamp, appKey |-> appKey]

\* A handled request: the answer and the number of responses sent, what the
\* map held on arrival (the age of the entry of the event key, whether an
\* entry set for the same application key was present), and the state of
\* its background processing with the time it was queued.
Handled(event, status, duplicate, processing) ==
    [appKey |-> event.appKey, eventKey |-> EventKey(event), status |-> status,
     duplicate |-> duplicate, processing |-> processing,
     responses |-> 1,
     acceptedAt |-> IF processing = "queued" THEN whNow ELSE 0,
     hadEntry |-> processedEvents[EventKey(event)].has,
     entryAge |-> whNow - processedEvents[EventKey(event)].timestamp,
     appEntryPresent |-> \E k \in EventKeys :
                            /\ processedEvents[k].has
                            /\ processedEvents[k].appKey = event.appKey]

\* A request answered before any key is computed.
Unkeyed(status) ==
    [appKey |-> "", eventKey |-> "", status |-> status, duplicate |-> FALSE,
     processing |-> "none", responses |-> 1, acceptedAt |-> 0,
     hadEntry |-> FALSE, entryAge |-> 0, appEntryPresent |-> FALSE]

\* generateIndexEventKey(repoName, branchName), for one repository and branch.
IndexEventKeys == {"index-repo-main"}

\* The test the cleanup applies to an entry.
Expired(timestamp, now) == now - timestamp > EVENT_TTL

\* The handler's test for a duplicate: processedEvents.has(eventKey).
IsDuplicate(event) == processedEvents[EventKey(event)].has

\* POST /webhook with no event type (400) or another event type (204).
WebhookOtherEvent ==
    /\ Len(whLog) < MaxEvents
    /\ \E t \in EventTypes \ {"pullRequestCreated"} :
          whLog' = Append(whLog, Unkeyed(IF t = "" THEN 400 ELSE 204))
    /\ UNCHANGED <<whNow, whLastCleanup, processedEvents, irVars>>

\* POST /webhook, pullRequestCreated, key already in the map: duplicate.
WebhookDuplicate ==
    /\ Len(whLog) < MaxEvents
    /\ \E a \in AppKeys, l \in LambdaKeys :
          LET event == WebhookEvent("pullRequestCreated", a, l) IN
          /\ IsDuplicate(event)
          /\ whLog' = Append(whLog, Handled(event, 200, TRUE, "none"))
    /\ UNCHANGED <<whNow, whLastCleanup, processedEvents, irVars>>

\* POST /webhook, pullRequestCreated, new key: the key is recorded, the
\* request answered and the processing queued with setImmediate.
WebhookAccepted ==
    /\ Len(whLog) < MaxEvents
    /\ \E a \in AppKeys, l \in LambdaKeys :
          LET event == WebhookEvent("pullRequestCreated", a, l) IN
          /\ ~IsDuplicate(event)
          /\ processedEvents' = [processedEvents EXCEPT ![EventKey(event)] = Entry(whNow, a)]
          /\ whLog' = Append(whLog, Handled(event, 200, FALSE, "queued"))
    /\ UNCHANGED <<whNow, whLastCleanup, irVars>>

\* The setImmediate callback runs: processCodeCommitPullRequest is called.
StartBackgroundProcessing ==
    /\ \E i \in 1..Len(whLog) :
          /\ whLog[i].processing = "queued"
          /\ whLog' = [whLog EXCEPT ![i].processing = "running"]
    /\ UNCHANGED <<whNow, whLastCleanup, processedEvents, irVars>>

\* processCodeCommitPullRequest resolved.
ProcessingResolves ==
    /\ \E i \in 1..Len(whLog) :
          /\ whLog[i].processing = "running"
          /\ whLog' = [whLog EXCEPT ![i].processing = "completed"]
    /\ UNCHANGED <<whNow, whLastCleanup, processedEvents, irVars>>

\* processCodeCommitPullRequest rejected: the key is removed from the map.
ProcessingRejects ==
    /\ \E i \in 1..Len(whLog) :
          /\ whLog[i].processing = "running"
          /\ whLog' = [whLog EXCEPT ![i].processing = "failed"]
          /\ processedEvents' = [processedEvents EXCEPT ![whLog[i].eventKey] = NoEntry]
    /\ UNCHANGED <<whNow, whLastCleanup, irVars>>

\* The setInterval callback: entries older than EVENT_TTL are deleted.
CleanupInterval ==
    /\ whNow - whLastCleanup = CLEANUP_INTERVAL
    /\ whLastCleanup' = whNow
    /\ processedEvents' =
          [k \in EventKeys |->
              IF processedEvents[k].has /\ Expired(processedEvents[k].timestamp, whNow)
              THEN NoEntry ELSE processedEvents[k]]
    /\ processedIndexEvents' =
          [k \in IndexEventKeys |->
              IF processedIndexEvents[k].has
                 /\ Expired(processedIndexEvents[k].timestamp, whNow)
              THEN NoEntry ELSE processedIndexEvents[k]]
    /\ UNCHANGED <<whNow, whLog, irLog>>

\* Time passes; a due cleanup runs before the clock goes on.
ClockTick ==
    /\ whNow < MaxTime
    /\ whNow - whLastCleanup < CLEANUP_INTERVAL
    /\ whNow' = whNow + 1
    /\ UNCHANGED <<whLastCleanup, processedEvents, whLog, irVars>>

WhInit ==
    /\ whNow = 0
    /\ whLastCleanup = 0
    /\ processedEvents = [k \in EventKeys |-> NoEntry]
    /\ whLog = <<>>
    /\ processedIndexEvents = [k \in IndexEventKeys |-> NoEntry]
    /\ irLog = <<>>

WhIdle == WhInit

WhNext ==
    \/ WebhookOtherEvent
    \/ WebhookDuplicate
    \/ WebhookAccepted
    \/ StartBackgroundProcessing
    \/ ProcessingResolves
    \/ ProcessingRejects
    \/ CleanupInterval
    \/ ClockTick

-----------------------------------------------------------------------------
(* Guideline store: storeGuidelineDocument, updateGuidelineDocument and    *)
(* searchGuidelines on the ai_guidelines collection, whose payload indexes *)
(* createIndexes creates behind the flag indexesCreated.                   *)

\* const indexes = [language, document_id, document_title]
IndexFields == <<"language", "document_id", "document_title">>

GlKinds == {"store", "update", "search", "createCollectionIndexes"}

\* A call: its kind, its position, the index of the createIndexes loop, the
\* loop's createdCount, and the value of the flag when the call was made.
GlCall(kind, pc) ==
    [kind |-> kind, pc |-> pc, index |-> 1, createdCount |-> 0,
     flagAtCall |-> indexesCreated]

\* A createPayloadIndex request: the call that issued it and its field.
IndexRequest(call, field) == [call |-> call, field |-> field]

\* createIndexes is entered by call c: with the flag set it returns at once;
\* otherwise the loop starts and issues its first request.
EntersCreateIndexes(c, flag) ==
    IF flag
    THEN /\ glCalls' = [glCalls EXCEPT ![c].pc = "done"]
         /\ UNCHANGED glRequests
    ELSE /\ glCalls' = [glCalls EXCEPT ![c].pc = "createPayloadIndex"]
         /\ glRequests' = glRequests \cup {IndexRequest(c, IndexFields[1])}

\* storeGuidelineDocument is called (updateGuidelineDocument calls it after
\* fetching the document): initializeCollection awaits checkCollection.
StoreGuidelineDocument ==
    /\ Len(glCalls) < MaxGlCalls
    /\ \E kind \in {"store", "update"} :
          glCalls' = Append(glCalls, GlCall(kind, "checkCollection"))
    /\ UNCHANGED <<indexesCreated, glCollection, glRequests>>

\* searchGuidelines: checkCollection, the search, no index creation.
SearchGuidelines ==
    /\ Len(glCalls) < MaxGlCalls
    /\ glCalls' = Append(glCalls, GlCall("search", "done"))
    /\ UNCHANGED <<indexesCreated, glCollection, glRequests>>

\* createCollectionIndexes: the flag is reset and createIndexes entered.
CreateCollectionIndexes ==
    /\ Len(glCalls) < MaxGlCalls
    /\ indexesCreated' = FALSE
    /\ glCalls' = Append(glCalls, GlCall("createCollectionIndexes", "createPayloadIndex"))
    /\ glRequests' = glRequests \cup {IndexRequest(Len(glCalls) + 1, IndexFields[1])}
    /\ UNCHANGED glCollection

\* initializeCollection, the collection exists: createIndexes unless the
\* flag is set.
CheckCollectionFound ==
    /\ glCollection
    /\ \E c \in 1..Len(glCalls) :
          /\ glCalls[c].pc = "checkCollection"
          /\ EntersCreateIndexes(c, indexesCreated)
    /\ UNCHANGED <<indexesCreated, glCollection>>

\* initializeCollection, no collection: createCollection is awaited.
CheckCollectionNotFound ==
    /\ ~glCollection
    /\ \E c \in 1..Len(glCalls) :
          /\ glCalls[c].pc = "checkCollection"
          /\ glCalls' = [glCalls EXCEPT ![c].pc = "createCollection"]
    /\ UNCHANGED <<indexesCreated, glCollection, glRequests>>

\* createCollection resolves: createIndexes for the new collection.
CreateCollectionResolves ==
    /\ \E c \in 1..Len(glCalls) :
          /\ glCalls[c].pc = "createCollection"
          /\ ~glCollection
          /\ EntersCreateIndexes(c, indexesCreated)
    /\ glCollection' = TRUE
    /\ UNCHANGED indexesCreated

\* createCollection rejects (the collection exists by now, or the store
\* failed): initializeCollection throws.
CreateCollectionRejects ==
    /\ \E c \in 1..Len(glCalls) :
          /\ glCalls[c].pc = "createCollection"
          /\ glCalls' = [glCalls EXCEPT ![c].pc = "threw"]
    /\ UNCHANGED <<indexesCreated, glCollection, glRequests>>

\* A createPayloadIndex request settles: created or 'already exists' counts,
\* another error is only logged.  The loop issues the next request, or ends
\* and sets the flag when all three counted.
CreatePayloadIndexSettles ==
    \E c \in 1..Len(glCalls), counted \in BOOLEAN :
        LET call == glCalls[c]
            count == call.createdCount + (IF counted THEN 1 ELSE 0)
        IN /\ call.pc = "createPayloadIndex"
           /\ IF call.index < Len(IndexFields)
              THEN /\ glCalls' = [glCalls EXCEPT ![c].index = @ + 1,
                                                 ![c].createdCount = count]
                   /\ glRequests' = glRequests \cup
                                      {IndexRequest(c, IndexFields[call.index + 1])}
                   /\ UNCHANGED indexesCreated
              ELSE /\ glCalls' = [glCalls EXCEPT ![c].pc = "done",
                                                 ![c].createdCount = count]
                   /\ indexesCreated' = (indexesCreated \/ count = Len(IndexFields))
                   /\ UNCHANGED glRequests
           /\ UNCHANGED glCollection

GlInit ==
    /\ indexesCreated = FALSE
    /\ glCollection \in BOOLEAN
    /\ glCalls = <<>>
    /\ glRequests = {}

GlIdle ==
    /\ indexesCreated = FALSE
    /\ glCollection = FALSE
    /\ glCalls = <<>>
    /\ glRequests = {}

GlNext ==
    \/ StoreGuidelineDocument
    \/ SearchGuidelines
    \/ CreateCollectionIndexes
    \/ CheckCollectionFound
    \/ CheckCollectionNotFound
    \/ CreateCollectionResolves
    \/ CreateCollectionRejects
    \/ CreatePayloadIndexSettles

-----------------------------------------------------------------------------
(* Index requests: POST /index marks the (repoName, branchName) pair in    *)
(* processedIndexEvents and runs createEmbeddingsForRepo in the            *)
(* background.  The clock and the cleanup are those of the webhook.        *)

\* The runs that are queued or executing.
RunsInFlight == {i \in 1..Len(irLog) : irLog[i].run \in {"queued", "running"}}

\* A handled request: the answer, its indexing run, and whether a run of
\* the pair was in flight when the request arrived.
IndexRequest_Handled(key, forceReindex, status, duplicate, run) ==
    [key |-> key, forceReindex |-> forceReindex, status |-> status,
     duplicate |-> duplicate, run |-> run,
     inFlightOnArrival |-> \E i \in RunsInFlight : irLog[i].key = key]

\* `!forceReindex && processedIndexEvents.has(indexEventKey)`
IsDuplicateIndexRequest(key, forceReindex) ==
    ~forceReindex /\ processedIndexEvents[key].has

\* POST /index without repoName or branchName: 400.
IndexRequestMissingParameters ==
    /\ Len(irLog) < MaxIndexRequests
    /\ irLog' = Append(irLog, [key |-> "", forceReindex |-> FALSE, status |-> 400,
                               duplicate |-> FALSE, run |-> "none",
                               inFlightOnArrival |-> FALSE])
    /\ UNCHANGED <<whVars, processedIndexEvents>>

\* POST /index for a marked pair: answered as a duplicate.
IndexRequestDuplicate ==
    /\ Len(irLog) < MaxIndexRequests
    /\ \E key \in IndexEventKeys, forceReindex \in BOOLEAN :
          /\ IsDuplicateIndexRequest(key, forceReindex)
          /\ irLog' = Append(irLog,
                 IndexRequest_Handled(key, forceReindex, 200, TRUE, "none"))
    /\ UNCHANGED <<whVars, processedIndexEvents>>

\* POST /index accepted: the pair is marked, the request answered and the
\* indexing queued with setImmediate.
IndexRequestAccepted ==
    /\ Len(irLog) < MaxIndexRequests
    /\ \E key \in IndexEventKeys, forceReindex \in BOOLEAN :
          /\ ~IsDuplicateIndexRequest(key, forceReindex)
          /\ processedIndexEvents' =
                [processedIndexEvents EXCEPT ![key] = Entry(whNow, key)]
          /\ irLog' = Append(irLog,
                 IndexRequest_Handled(key, forceReindex, 200, FALSE, "queued"))
    /\ UNCHANGED whVars

\* The setImmediate callback runs: createEmbeddingsForRepo is called.
StartBackgroundIndexing ==
    /\ \E i \in 1..Len(irLog) :
          /\ irLog[i].run = "queued"
          /\ irLog' = [irLog EXCEPT ![i].run = "running"]
    /\ UNCHANGED <<whVars, processedIndexEvents>>

\* createEmbeddingsForRepo resolved.
IndexingResolves ==
    /\ \E i \in 1..Len(irLog) :
          /\ irLog[i].run = "running"
          /\ irLog' = [irLog EXCEPT ![i].run = "completed"]
    /\ UNCHANGED <<whVars, processedIndexEvents>>

\* createEmbeddingsForRepo rejected: the marker of the pair is deleted.
IndexingRejects ==
    /\ \E i \in 1..Len(irLog) :
          /\ irLog[i].run = "running"
          /\ irLog' = [irLog EXCEPT ![i].run = "failed"]
          /\ processedIndexEvents' =
                [processedIndexEvents EXCEPT ![irLog[i].key] = NoEntry]
    /\ UNCHANGED whVars

IrNext ==
    \/ IndexRequestMissingParameters
    \/ IndexRequestDuplicate
    \/ IndexRequestAccepted
    \/ StartBackgroundIndexing
    \/ IndexingResolves
    \/ IndexingRejects
    \/ CleanupInterval
    \/ ClockTick

-----------------------------------------------------------------------------
(* Specifications, one per subsystem.                                      *)

\* The subsystems a specification holds idle.
ServiceIdle == WhIdle /\ GlIdle
serviceVars == <<whVars, irVars, glVars>>

IndexIdle == IxIdle /\ KbIdle /\ PrIdle /\ ServiceIdle
indexVars == <<ixVars, kbVars, prVars, serviceVars>>

InitReconcile == RcInit /\ PubIdle /\ AnIdle /\ IndexIdle
NextReconcile == RcNext /\ UNCHANGED <<pubVars, anVars, indexVars>>
SpecReconcile == InitReconcile /\ [][NextReconcile]_vars

InitPublish == PubInit /\ AnIdle /\ IndexIdle
NextPublish == PubNext /\ UNCHANGED <<anVars, indexVars>>
SpecPublish == InitPublish /\ [][NextPublish]_vars

InitExtract == AnInit /\ IndexIdle
NextExtract == AnNext /\ UNCHANGED indexVars
SpecExtract == InitExtract /\ [][NextExtract]_vars

\* The stores are indexed while no review runs.
ReviewIdle ==
    /\ afterContent = NullContent
    /\ aiLine = 0
    /\ rcPc = "idle"
    /\ requests = <<>>
    /\ commentResult = NoResult
    /\ apiRejects = 0

\* No review runs: reconciler, publisher and file analysis are idle.
NoReview == ReviewIdle /\ PubIdle /\ AnIdle
reviewVars == <<rcVars, pubVars, anVars>>

InitIndex == IxInit /\ NoReview /\ KbIdle /\ PrIdle /\ ServiceIdle
NextIndex == IxNext /\ UNCHANGED <<reviewVars, kbVars, prVars, serviceVars>>
SpecIndex == InitIndex /\ [][NextIndex]_vars

InitContext == KbInit /\ NoReview /\ IxIdle /\ PrIdle /\ ServiceIdle
NextContext == KbNext /\ UNCHANGED <<reviewVars, ixVars, prVars, serviceVars>>
SpecContext == InitContext /\ [][NextContext]_vars

InitPullRequest == PrInit /\ NoReview /\ IxIdle /\ KbIdle /\ ServiceIdle
NextPullRequest == PrNext /\ UNCHANGED <<reviewVars, ixVars, kbVars, serviceVars>>
SpecPullRequest == InitPullRequest /\ [][NextPullRequest]_vars

InitWebhook == WhInit /\ NoReview /\ IxIdle /\ KbIdle /\ PrIdle /\ GlIdle
NextWebhook == WhNext /\ UNCHANGED <<reviewVars, ixVars, kbVars, prVars, glVars>>
SpecWebhook == InitWebhook /\ [][NextWebhook]_vars

InitGuidelines == GlInit /\ NoReview /\ IxIdle /\ KbIdle /\ PrIdle /\ WhIdle
NextGuidelines == GlNext /\ UNCHANGED <<reviewVars, ixVars, kbVars, prVars, whVars, irVars>>
SpecGuidelines == InitGuidelines /\ [][NextGuidelines]_vars

NextIndexRequests == IrNext /\ UNCHANGED <<reviewVars, ixVars, kbVars, prVars, glVars>>
SpecIndexRequests == InitWebhook /\ [][NextIndexRequests]_vars

-----------------------------------------------------------------------------
(* Properties of the line reconciler (SpecReconcile).                      *)

\* The line the call settled on: the filePosition of its request, or the
\* line of its failure record.
UsedLine == IF requests # <<>> THEN requests[Len(requests)] ELSE commentResult.line

CallActed == rcPc \in {"sent", "done"}

LabelValue(l) == ParseInt(l.label)

\* The physical positions whose label (in either form) has value n.
PositionsLabelled(content, n) ==
    {i \in 1..Len(content.lines) :
        content.lines[i].kind \in {"AFTER", "NUM"} /\ LabelValue(content.lines[i]) = n}

FirstLabelled(content, n) ==
    CHOOSE i \in PositionsLabelled(content, n) : \A j \in PositionsLabelled(content, n) : i <= j

\* The content is labelled, and in one form only.
OneLabelForm(content) ==
    /\ ~content.isNull
    /\ HasAfterPrefix(content) # HasNumberPrefix(content)

\* Every line is labelled and line i carries label i.
LabelledOneToN(content) ==
    /\ OneLabelForm(content)
    /\ \A i \in 1..Len(content.lines) :
          content.lines[i].kind \in {"AFTER", "NUM"} /\ LabelValue(content.lines[i]) = i

InPhysicalRange(ln, content) == ln >= 1 /\ ln <= Len(content.lines)

\* C1: a PostCommentForPullRequest request is sent only for a resolved line
\* within 1..number of physical lines of the after-content (empty content
\* included); otherwise the call returns an out-of-range failure record and
\* sends nothing, and the line sent is the resolved line, never a clamped one.
C1_RequestOnlyInRange ==
    ~afterContent.isNull =>
        /\ \A i \in 1..Len(requests) :
              /\ InPhysicalRange(requests[i], afterContent)
              /\ requests[i] = mapAILineToActualLine(aiLine, afterContent)
        /\ (rcPc = "done" /\ ~InPhysicalRange(mapAILineToActualLine(aiLine, afterContent), afterContent))
              => /\ requests = <<>>
                 /\ ~commentResult.success
                 /\ commentResult.error = "OutOfRange"

\* C2: when the after-content is labelled (AFTER-<n>: or <n>:) and some line
\* carries label n, the reported number n resolves to the physical position
\* of the first line labelled n, not to n itself.
C2_LabelResolvesToPosition ==
    (/\ CallActed
     /\ OneLabelForm(afterContent)
     /\ PositionsLabelled(afterContent, aiLine) # {})
        => UsedLine = FirstLabelled(afterContent, aiLine)

\* C2 witness: a call on labelled content whose label n sits at a physical
\* position other than n, after the call resolved the line.
C2_Witness ==
    /\ rcPc = "done"
    /\ OneLabelForm(afterContent)
    /\ PositionsLabelled(afterContent, aiLine) # {}
    /\ FirstLabelled(afterContent, aiLine) # aiLine
    /\ Cardinality(PositionsLabelled(afterContent, aiLine)) > 1
    /\ commentResult.success

\* C3: on labelled content, a reported number k resolves to physical line k
\* when the labels are 1..N and 1 <= k <= N, and is out of range (nothing
\* posted) whenever k is no line's label.
C3_RoundTripOrOutOfRange ==
    (rcPc = "done" /\ OneLabelForm(afterContent)) =>
        /\ (LabelledOneToN(afterContent) /\ InPhysicalRange(aiLine, afterContent))
              => UsedLine = aiLine
        /\ PositionsLabelled(afterContent, aiLine) = {}
              => /\ requests = <<>>
                 /\ commentResult.error = "OutOfRange"

-----------------------------------------------------------------------------
(* Properties of the comment publisher (SpecPublish).                      *)

\* Non-increasing severity rank, ties in ascending line.
PriorityOrdered(issues) ==
    \A i, j \in 1..Len(issues) :
        i < j => \/ SeverityOrder(issues[i].severity) > SeverityOrder(issues[j].severity)
                 \/ /\ issues[i].severity = issues[j].severity
                    /\ issues[i].line <= issues[j].line

SeqRange(q) == {q[i] : i \in 1..Len(q)}

Selected == pubPc \in {"loop", "posting", "delay", "returned"} /\ lineIssues # <<>>

\* The issues postInlineFileComment has been called for so far.
Handed ==
    IF pubPc \in {"posting", "delay"} THEN SubSeq(issuesToPost, 1, postIdx)
    ELSE IF pubPc \in {"loop", "returned"} THEN SubSeq(issuesToPost, 1, postIdx - 1)
    ELSE <<>>

\* C4: with more findings than MAX_COMMENTS, exactly 10 of them are selected,
\* in the order Critical > High > Medium > Low and ascending line within a
\* severity, and no dropped finding is more severe than a selected one.
C4_CapKeepsMostSevere ==
    (Selected /\ Len(lineIssues) > MAX_COMMENTS) =>
        /\ Len(issuesToPost) = MAX_COMMENTS
        /\ SeqRange(issuesToPost) \subseteq SeqRange(lineIssues)
        /\ Cardinality(SeqRange(issuesToPost)) = MAX_COMMENTS
        /\ PriorityOrdered(issuesToPost)
        /\ \A d \in SeqRange(lineIssues) \ SeqRange(issuesToPost) :
              \A k \in SeqRange(issuesToPost) :
                  SeverityOrder(d.severity) <= SeverityOrder(k.severity)

\* C4 witness: a run over more than 10 findings returned, the selection is
\* not the first 10 in line order, and a less severe finding was dropped.
C4_Witness ==
    /\ pubPc = "returned"
    /\ Len(lineIssues) > MAX_COMMENTS
    /\ issuesToPost # SubSeq(lineIssues, 1, MAX_COMMENTS)
    /\ \E d \in SeqRange(lineIssues) \ SeqRange(issuesToPost) :
          \E k \in SeqRange(issuesToPost) :
              SeverityOrder(d.severity) < SeverityOrder(k.severity)

\* C5: whatever the number of findings, the comments handed to
\* postInlineFileComment come in non-increasing severity, ties in ascending
\* line, and are at most 10.
C5_HandedInPriorityOrder ==
    /\ PriorityOrdered(Handed)
    /\ Len(Handed) <= MAX_COMMENTS

\* C23: the comments of one file are posted one after another: a post is
\* only under way for the comment at the loop index, with the results of all
\* earlier comments collected, and none is under way during the delay; every
\* selected comment gets one call and one result, in order, also after the
\* hosting API rejected an earlier one.
C23_CommentsPostedOneByOne ==
    Selected =>
        /\ pubPc = "loop" => Len(results) = postIdx - 1 /\ rcPc = "idle"
        /\ pubPc = "posting" => Len(results) = postIdx - 1 /\ postIdx <= Len(issuesToPost)
        /\ pubPc = "delay" => Len(results) = postIdx /\ rcPc = "idle"
        /\ rcPc \in {"call", "sent", "done"} => pubPc = "posting"
        /\ Len(requests) <= Len(results) + (IF rcPc \in {"sent", "done"} THEN 1 ELSE 0)
        /\ \A i \in 1..Len(results) : results[i].originalAILine = issuesToPost[i].line
        /\ pubPc = "returned" => Len(results) = Len(issuesToPost)

\* C23 witness: the call has returned; the hosting API rejected the first
\* comment and a later comment was posted.
C23_Witness ==
    /\ Selected
    /\ pubPc = "returned"
    /\ results[1].error = "ApiError"
    /\ \E i \in 2..Len(results) : results[i].success
    /\ Len(requests) = Len(results)

\* The findings whose resolved line passes the validation of
\* postInlineFileComment.
ValidFindings == {f \in SeqRange(lineIssues) : ~RejectsLine(f.line, afterContent)}

\* C25: the cap of 10 applies to the findings that pass line validation:
\* with at least 10 findings in range, 10 requests reach the hosting API,
\* and no finding out of range takes a place while one in range is dropped.
C25_CapCountsValidFindingsOnly ==
    (Selected /\ pubPc = "returned") =>
        /\ Cardinality(ValidFindings) >= MAX_COMMENTS => Len(requests) = MAX_COMMENTS
        /\ (ValidFindings \ SeqRange(issuesToPost) # {})
              => SeqRange(issuesToPost) \subseteq ValidFindings

-----------------------------------------------------------------------------
(* Properties of the finding extractor and the file analysis (SpecExtract). *)

\* postLineSpecificIssues has its extracted findings.
Extracted == pubPc \in {"start", "loop", "posting", "delay", "returned"}

\* The extractor has just returned its list to postLineSpecificIssues.
ExtractorReturned == pubPc = "start"

\* The findings before the duplicate filter, in the order they were found.
FoundIssues ==
    IF Len(ProcessedKeyFindings(keyFindings)) > 0 THEN ProcessedKeyFindings(keyFindings)
    ELSE IF IsEmptyText(response) THEN <<>>
    ELSE CollectIssues(response, 1)

\* Same line and same description up to surrounding white space.
SameLineAndDescription(a, b) == a.line = b.line /\ Trim(a.problem) = Trim(b.problem)

FirstFound(found, f) ==
    FindIndex({k \in 1..Len(found) : SameLineAndDescription(found[k], f)})

\* C6: the list the extractor returns has no two findings with the same line
\* and the same normalized description; findings that agree on both collapse
\* to one, and the one kept is the first that was found.
C6_NoDuplicateFindings ==
    ExtractorReturned =>
        LET found == FoundIssues IN
        /\ \A i, j \in 1..Len(lineIssues) :
              i # j => ~SameLineAndDescription(lineIssues[i], lineIssues[j])
        /\ \A i \in 1..Len(lineIssues) :
              /\ FirstFound(found, lineIssues[i]) >= 1
              /\ lineIssues[i] = found[FirstFound(found, lineIssues[i])]
        /\ \A k \in 1..Len(found) :
              \E i \in 1..Len(lineIssues) : SameLineAndDescription(found[k], lineIssues[i])

\* C6 witness: two findings with the same line and description but different
\* fix or severity were found, and the returned list is shorter.
C6_Witness ==
    /\ ExtractorReturned
    /\ anPc = "commenting"
    /\ LET found == FoundIssues IN
       /\ Len(lineIssues) < Len(found)
       /\ \E a, b \in 1..Len(found) :
             /\ a < b
             /\ SameLineAndDescription(found[a], found[b])
             /\ found[a] # found[b]

\* The response of scenario A: '- **Line n: [Security Issue]** - <description>',
\* '**Fix:** <text>', '**Severity:** Critical', with n >= 1 and a text.
IsScenarioA(text) ==
    /\ Len(text) = 3
    /\ text[1].kind = "ISSUE"
    /\ text[1].bullet = "-" /\ text[1].bold /\ text[1].bracket /\ text[1].sep
    /\ text[1].type = "Security Issue"
    /\ ParseInt(text[1].num) >= 1
    /\ text[2].kind = "FIX" /\ text[2].text # ""
    /\ text[3] = SeverityLine("Critical")

\* C7: for the response of scenario A the extractor yields exactly one
\* finding: line n, type Security Issue, severity critical, and the fix is
\* the text of the Fix line, not a generated suggestion.
C7_ScenarioAOneFinding ==
    (Extracted /\ anPc = "commenting" /\ IsScenarioA(response)) =>
        /\ Len(lineIssues) = 1
        /\ lineIssues[1].line = ParseInt(response[1].num)
        /\ lineIssues[1].type = "Security Issue"
        /\ lineIssues[1].severity = "critical"
        /\ lineIssues[1].fix = response[2].text
        /\ lineIssues[1].fix #
              generateFixSuggestion(response[1].type, response[1].desc.text)

\* C7 witness: the analysis of a scenario A response has extracted its findings.
C7_Witness ==
    /\ Extracted
    /\ anPc = "commenting"
    /\ IsScenarioA(response)
    /\ lineIssues # <<>>

\* No line of the response matches a rule of LINE_EXTRACTION_PATTERNS.
NoLineMatches(text) == \A i \in 1..Len(text) : FirstPattern(text[i]) = 0

\* C8: when no line of the response matches an extraction rule, the
\* extractor returns the empty list, no comment request is sent, and the
\* file's result keeps success true with no error flag.
C8_NoMatchIsNotAFailure ==
    (anPc \in {"commenting", "done"} /\ ~analysisResult.skipped /\ NoLineMatches(response)) =>
        /\ Extracted => lineIssues = <<>>
        /\ requests = <<>>
        /\ rcPc = "idle"
        /\ analysisResult.success
        /\ ~analysisResult.error

\* C8 witness: the analysis of a response with Fix:/Severity: or prose lines
\* but no issue line has returned after postLineSpecificIssues ran.
C8_Witness ==
    /\ anPc = "done"
    /\ pubPc = "returned"
    /\ NoLineMatches(response)
    /\ \E i \in 1..Len(response) : response[i].kind \in {"FIX", "SEV", "PROSE"}
    /\ results = <<NoIssuesResult>>
    /\ requests = <<>>

\* The positions of the response at which the legacy extractor finds an
\* issue line.
IssuePositions(text) == {i \in 1..Len(text) : ~SkipsLine(text[i])}

\* The lines that belong to the issue line at position i: those after it
\* and before the next issue line, of whatever shape.
OwnLines(text, i) ==
    {j \in (i + 1)..Len(text) : \A k \in (i + 1)..j : text[k].kind # "ISSUE"}

\* The last line of a kind among the lines of the finding at i, 0 if none.
LastOwn(text, i, kind) ==
    LET own == {j \in OwnLines(text, i) : text[j].kind = kind}
    IN IF own = {} THEN 0 ELSE CHOOSE j \in own : \A k \in own : k <= j

OwnSeverity(text, i) ==
    IF LastOwn(text, i, "SEV") = 0 THEN "medium"
    ELSE normalizeSeverity(text[LastOwn(text, i, "SEV")].word)

OwnFix(text, i) ==
    IF LastOwn(text, i, "FIX") = 0 THEN "" ELSE text[LastOwn(text, i, "FIX")].text

\* C26: every finding extracted from the response text has the severity and
\* the fix of the Severity:/Fix: lines between its own issue line and the
\* next issue line of any shape, and severity medium without a Severity:
\* line of its own; a line after a later issue line never changes it.
C26_SeverityAndFixFromOwnLines ==
    (ExtractorReturned /\ Len(ProcessedKeyFindings(keyFindings)) = 0) =>
        \A k \in 1..Len(lineIssues) :
            \E i \in IssuePositions(response) :
                /\ lineIssues[k].line = extractLineFromText(response[i]).lineNumber
                /\ lineIssues[k].problem = extractLineFromText(response[i]).description
                /\ lineIssues[k].severity = OwnSeverity(response, i)
                /\ OwnFix(response, i) # "" => lineIssues[k].fix = OwnFix(response, i)

\* C29: every line-specific issue extractKeyFindings recognizes in the
\* response is in keyFindings.lineSpecificIssues of the findings it returns;
\* the post-processing drops nothing but exact duplicates.
C29_RecognizedIssuesKept ==
    (anPc \in {"commenting", "done"} /\ ~keyFindings.isNull) =>
        \A i \in 1..Len(response) :
            RecognizesLine(response[i]) =>
                \E k \in 1..Len(keyFindings.lineSpecificIssues) :
                    keyFindings.lineSpecificIssues[k] = RecognizedIssue(response[i])

\* The PostCommentForPullRequest requests that succeeded.
SucceededRequests == Len(requests) - apiRejects

\* C30: the comment counts of a file's result count real posts only:
\* successfulComments is the number of requests that succeeded and
\* totalComments the number of comments posting was attempted for, also
\* when no finding was extracted; and the posted comments the summaries
\* add up for the file are the requests that succeeded.
C30_CommentCountsAreRealPosts ==
    (anPc = "done" /\ pubPc = "returned") =>
        /\ analysisResult.reviewComment.successfulComments = SucceededRequests
        /\ analysisResult.reviewComment.totalComments = Len(issuesToPost)
        /\ StatsCommentsSuccessful(analysisResult) = SucceededRequests
        /\ CommentsPosted(analysisResult) = SucceededRequests

-----------------------------------------------------------------------------
(* Properties of the repository indexer (SpecIndex).                       *)

PointsOf(points, f) == {p \in points : p.source = f}

\* Two passes have completed and no store or embedding operation failed.
TwoCleanPasses == Len(snaps) >= 2 /\ Len(reads) >= 2 /\ faults = 0

\* The files whose content differs between the first and the second pass.
ChangedFiles == {f \in Files : reads[1].content[f] # reads[2].content[f]}

\* C9: indexing an unchanged repository (or the same unchanged files) a
\* second time yields the same chunk ids, and the store holds the same set
\* of points after the second pass as after the first.
C9_ReindexIsIdempotent ==
    (/\ TwoCleanPasses
     /\ ChangedFiles = {}
     /\ reads[2].files = reads[1].files)
        => /\ PointIds(snaps[2]) = PointIds(snaps[1])
           /\ snaps[2] = snaps[1]

\* C10: when exactly one file changed between two passes, the chunk ids of
\* every other file are the same after the second pass as before it.
C10_OnlyChangedFileReplaced ==
    (TwoCleanPasses /\ Cardinality(ChangedFiles) = 1)
        => \A g \in Files \ ChangedFiles :
              PointIds(PointsOf(snaps[2], g)) = PointIds(PointsOf(snaps[1], g))

\* The files a pass is to bring up to date: the whole repository for
\* createEmbeddingsForRepo, the files of the pull request for
\* updateEmbeddingsOnMerge.
FilesInScope(n) == IF ixMode = "merge" THEN reads[n].files ELSE Files

\* A stored point is current when its text is the chunk with its index of
\* the content its file has now.
IsCurrentChunk(p, content) ==
    /\ content[p.source] # NoFile
    /\ p.chunkIndex + 1 <= Len(splitText(content[p.source]))
    /\ splitText(content[p.source])[p.chunkIndex + 1] = p.text

\* C11: after a re-index (a second pass) has completed, every stored chunk
\* of a file the pass covers is a chunk of that file's present content: no
\* chunk of changed or removed content survives, whichever cleanup path was
\* taken and also when a cleanup step failed.
C11_NoStaleChunkSurvives ==
    (Len(snaps) >= 2 /\ Len(reads) >= 2)
        => \A p \in snaps[2] :
              p.source \in FilesInScope(2) => IsCurrentChunk(p, reads[2].content)

\* A run of createEmbeddingsForRepo has ended, by return or by throw.
RunEnded == ixRun.outcome \in {"returned", "threw"}

\* The number of batches of a run: ceil(points.length / batchSize).
BatchCount == (ixRun.embeddings + batchSize - 1) \div batchSize

\* C12: in the upsert phase of createEmbeddingsForRepo every batch is
\* attempted exactly once and in index order, whichever earlier batches
\* failed, and the run ends by returning its summary, never by throwing.
C12_EveryBatchAttemptedRunReturns ==
    RunEnded
        => /\ ixRun.outcome = "returned"
           /\ Len(ixRun.attempts) = BatchCount
           /\ \A k \in 1..Len(ixRun.attempts) :
                 ixRun.attempts[k].i = (k - 1) * batchSize

\* The number of points in the attempted batches that resolved (ok) or
\* rejected (~ok).
RECURSIVE PointsAttempted(_, _)
PointsAttempted(attempts, ok) ==
    IF attempts = <<>> THEN 0
    ELSE (IF Head(attempts).ok = ok THEN Head(attempts).length ELSE 0)
         + PointsAttempted(Tail(attempts), ok)

\* C13: the summary of an indexing run matches what happened: the number of
\* chunks it reports as stored is the number of points in the batches whose
\* upsert succeeded, and the points of failed batches are counted as failed.
C13_SummaryMatchesWhatHappened ==
    ixRun.outcome = "returned"
        => /\ ixRun.summary.chunksEmbedded = PointsAttempted(ixRun.attempts, TRUE)
           /\ ixRun.summary.failedEmbeddings >= PointsAttempted(ixRun.attempts, FALSE)

\* C15: no chunk is ever stored for a file whose path is on the denylist
\* of shouldSkipFile, whichever indexing entry point wrote the store.
C15_NoDeniedFileStored ==
    \A p \in store : ~shouldSkipFile(p.source)

-----------------------------------------------------------------------------
(* Properties of the knowledge base (SpecContext).                         *)

\* The (repository, branch) the last context query was made for.
AskedFor == <<kbContext.repositoryName, kbContext.branchName>>

\* C14: for two distinct indexed (repository, branch) pairs, a context
\* query made for one never returns a chunk whose payload names the other,
\* and the two never have the same collection name.
C14_ContextStaysInItsNamespace ==
    /\ (kbContext.asked /\ AskedFor \in kbIndexed)
          => \A c \in kbContext.contextChunks :
                <<c.repository, c.branch>> \notin kbIndexed \ {AskedFor}
    /\ \A a \in kbIndexed, b \in kbIndexed :
          a # b => CollectionName(a[1], a[2]) # CollectionName(b[1], b[2])

-----------------------------------------------------------------------------
(* Properties of the pull request processing (SpecPullRequest).            *)

RECURSIVE Flatten(_)
Flatten(pages) == IF pages = <<>> THEN <<>> ELSE Head(pages) \o Flatten(Tail(pages))

\* The differences of the pages fetched so far.
FetchedDifferences == Flatten(SubSeq(prPages, 1, prPageIdx))

\* How often a path stands in a list.
Occurrences(list, path) == Cardinality({i \in 1..Len(list) : list[i].filename = path})

\* The list a change type belongs to.
ListFor(changeType) ==
    IF changeType = "A" THEN prLists.newFiles
    ELSE IF changeType = "M" THEN prLists.changedFiles
    ELSE prLists.deletedFiles

\* The analyzeFileWithAI calls made so far, settled or running.
AnalysisCalls == SeqRange(prResults) \cup SeqRange(prBatch)

\* C16: the pages are consumed to the last one; every difference of every
\* page is in exactly one of newFiles, changedFiles, deletedFiles (so the
\* summary's totalFiles is the number of differences); and no deleted file
\* ever reaches analyzeFilesInBatches or an analyzeFileWithAI call.
C16_EveryDifferenceClassifiedOnce ==
    /\ \A k \in 1..Len(FetchedDifferences) :
          /\ Occurrences(ListFor(FetchedDifferences[k].changeType),
                         FetchedDifferences[k].path) = 1
          /\ Occurrences(prLists.newFiles, FetchedDifferences[k].path)
               + Occurrences(prLists.changedFiles, FetchedDifferences[k].path)
               + Occurrences(prLists.deletedFiles, FetchedDifferences[k].path) = 1
    /\ Len(prLists.newFiles) + Len(prLists.changedFiles) + Len(prLists.deletedFiles)
          = Len(FetchedDifferences)
    /\ prLists.totalDifferences = Len(FetchedDifferences)
    /\ prPc \in {"classified", "analyze", "done"} => prPageIdx = Len(prPages)
    /\ prSummary.returned => prSummary.totalFiles = Len(Flatten(prPages))
    /\ \A f \in SeqRange(prQueue) \cup {t.file : t \in AnalysisCalls} :
          /\ f.changeType # "D"
          /\ Occurrences(prLists.deletedFiles, f.filename) = 0

\* C16 witness: a listing of two non-empty pages with a deleted file and an
\* analyzed file has been processed to the end.
C16_Witness ==
    /\ prPc = "done"
    /\ Len(prPages) = 2 /\ prPages[1] # <<>> /\ prPages[2] # <<>>
    /\ prLists.deletedFiles # <<>>
    /\ prResults # <<>>
    /\ prSummary.returned

\* C19: invoke never makes more than 3 attempts; it returns on the first
\* attempt that succeeds; after 3 failed attempts it throws with no further
\* attempt and analyzeFileWithAI returns a failed result (success false,
\* error true); and the other files of the request are still analyzed.
C19_InvokeEndsWithinThreeAttempts ==
    /\ \A t \in AnalysisCalls :
          /\ t.calls <= maxRetries
          /\ t.attempt <= maxRetries
          /\ (t.pc = "done" /\ t.result = AnalysisSucceeded) => t.calls = t.attempt + 1
          /\ t.attempt = maxRetries
                => /\ t.pc = "done"
                   /\ t.calls = maxRetries
                   /\ ~t.result.success
                   /\ t.result.error
          /\ (t.pc = "done" /\ t.calls > 0 /\ t.result.error) => t.attempt = maxRetries
    /\ (prSummary.returned /\ allAnalyzableFiles(prLists) # <<>>)
          => /\ Len(prResults) = Len(allAnalyzableFiles(prLists))
             /\ \A i \in 1..Len(prResults) :
                   prResults[i].file = allAnalyzableFiles(prLists)[i]

\* C19 witness: the request has returned; one file failed after 3 attempts
\* and a file of a later batch was analyzed with its second attempt.
C19_Witness ==
    /\ prSummary.returned
    /\ \E i \in 1..Len(prResults), j \in 1..Len(prResults) :
          /\ i + analysisBatchSize <= j
          /\ prResults[i].attempt = maxRetries /\ prResults[i].result.error
          /\ prResults[j].result = AnalysisSucceeded /\ prResults[j].calls = 2

\* The waits taken so far, in all analyzeFileWithAI calls.
WaitsTaken == UNION {SeqRange(t.waits) : t \in AnalysisCalls}

\* C20: the waits of the retry loop grow exponentially with the attempt
\* number, and at every retry index the wait after a rate-limit-class error
\* is strictly longer than the wait after any other error.
C20_RateLimitWaitsStrictlyLonger ==
    /\ \A w \in WaitsTaken, v \in WaitsTaken :
          (w.attempt = v.attempt /\ w.rateLimit /\ ~v.rateLimit) => w.ms > v.ms
    /\ \A w \in WaitsTaken, v \in WaitsTaken :
          (v.attempt = w.attempt + 1 /\ v.rateLimit = w.rateLimit) => v.ms >= 2 * w.ms

\* The analyses of the current batch that have not settled.
InFlight == {i \in 1..Len(prBatch) : prBatch[i].pc # "done"}

\* C21: at most batchSize (2) per-file analyses are in flight; while a batch
\* runs, every analysis of the batches before it has settled; and the
\* summary is produced only after every analysis has settled.
C21_BatchesRunOneAfterAnother ==
    /\ Len(prBatch) <= analysisBatchSize
    /\ Cardinality(InFlight) <= analysisBatchSize
    /\ \A i \in 1..Len(prResults) : prResults[i].pc = "done"
    /\ prBatch # <<>> =>
          /\ Len(prResults) % analysisBatchSize = 0
          /\ \A i \in 1..Len(prBatch) :
                prBatch[i].file = allAnalyzableFiles(prLists)[Len(prResults) + i]
    /\ (prSummary.returned /\ allAnalyzableFiles(prLists) # <<>>)
          => /\ prBatch = <<>> /\ prQueue = <<>>
             /\ Len(prResults) = Len(allAnalyzableFiles(prLists))

\* C21 witness: the second batch is running, its analysis waiting on the
\* model, after a first batch of two analyses has settled.
C21_Witness ==
    /\ Len(prResults) = analysisBatchSize
    /\ prBatch # <<>>
    /\ prBatch[1].pc = "invoke"
    /\ \E i \in 1..Len(prResults) : prResults[i].calls > 1

\* C22: analyzeFilesInBatches returns one result per input file, in input
\* order, whatever the outcome of each file; and its statistics count every
\* result in exactly one of successful, skipped, failed, so the three add up
\* to the number of files.
C22_OneResultPerFileCountedOnce ==
    /\ \A i \in 1..Len(prResults) :
          /\ prResults[i].file = allAnalyzableFiles(prLists)[i]
          /\ Stats(<<prResults[i]>>).successful + Stats(<<prResults[i]>>).skipped
               + Stats(<<prResults[i]>>).failed = 1
    /\ Stats(prResults).successful + Stats(prResults).skipped + Stats(prResults).failed
          = Len(prResults)
    /\ (prSummary.returned /\ allAnalyzableFiles(prLists) # <<>>)
          => Len(prResults) = Len(allAnalyzableFiles(prLists))

\* C22 witness: a request of three files has returned with a successful, a
\* skipped and a rejected analysis among its results.
C22_Witness ==
    /\ prSummary.returned
    /\ Len(prResults) = 3
    /\ \E i \in 1..3 : prResults[i].settled = "rejected"
    /\ Stats(prResults).successful = 1
    /\ Stats(prResults).skipped = 1
    /\ Stats(prResults).failed = 1

-----------------------------------------------------------------------------
(* Properties of the webhook (SpecWebhook).                                *)

\* The pullRequestCreated requests handled so far.
PullRequestEvents == {i \in 1..Len(whLog) : whLog[i].status = 200}

\* C17: while an entry for an event's key (repository, pull request id,
\* source commit) is in processedEvents, a later event with that key is
\* answered as a duplicate and starts no processing; so the processing for
\* one key never runs twice at the same time.
C17_DuplicateKeySuppressed ==
    /\ \A i \in PullRequestEvents :
          whLog[i].appEntryPresent
              => whLog[i].duplicate /\ whLog[i].processing = "none"
    /\ \A i \in PullRequestEvents, j \in PullRequestEvents :
          (i # j /\ whLog[i].appKey = whLog[j].appKey)
              => ~(whLog[i].processing = "running" /\ whLog[j].processing = "running")

\* C18: an event whose key was recorded more than EVENT_TTL ago is treated
\* as new and processed, whether or not the cleanup has run since the entry
\* expired.
C18_ExpiredEntryNeverSuppresses ==
    \A i \in PullRequestEvents :
        (whLog[i].hadEntry /\ whLog[i].entryAge > EVENT_TTL) => ~whLog[i].duplicate

\* The requests whose processing was queued.
AcceptedEvents == {i \in PullRequestEvents : ~whLog[i].duplicate}

\* C28: every request gets exactly one response, and a processing only
\* starts for a request already answered as queued; after a processing
\* threw, its key is out of processedEvents unless a later event set it
\* again, and an event whose key is not in the map is processed; after a
\* processing succeeded its key stays in the map until the cleanup evicts it.
C28_KeyRemovedOnFailureKeptOnSuccess ==
    /\ \A i \in 1..Len(whLog) :
          /\ whLog[i].responses = 1
          /\ whLog[i].processing # "none" => i \in AcceptedEvents
          /\ whLog[i].duplicate => whLog[i].hadEntry
    /\ \A i \in AcceptedEvents :
          (whLog[i].processing = "failed" /\ processedEvents[whLog[i].eventKey].has)
              => \E j \in AcceptedEvents : j > i /\ whLog[j].eventKey = whLog[i].eventKey
    /\ \A i \in AcceptedEvents :
          (whLog[i].processing = "completed"
              /\ ~Expired(whLog[i].acceptedAt, whNow))
              => processedEvents[whLog[i].eventKey].has

-----------------------------------------------------------------------------
(* Properties of the guideline store (SpecGuidelines).                     *)

\* createCollectionIndexes has been called.
CalledExplicitly == \E c \in 1..Len(glCalls) : glCalls[c].kind = "createCollectionIndexes"

\* C24: a call of storeGuidelineDocument, updateGuidelineDocument or
\* searchGuidelines made when indexesCreated was true issues no
\* createPayloadIndex request, and unless createCollectionIndexes is called
\* the indexes are created at most once (no field is requested twice).
C24_IndexesCreatedOnce ==
    ~CalledExplicitly =>
        /\ \A q \in glRequests : ~glCalls[q.call].flagAtCall
        /\ \A q \in glRequests, r \in glRequests : q.field = r.field => q = r

-----------------------------------------------------------------------------
(* Properties of the index requests (SpecIndexRequests).                   *)

\* C27: a request with forceReindex false is accepted only when no indexing
\* run of the pair is in flight; the marker of a pair stays while one of its
\* runs is in flight, whatever happens to the other runs.
C27_NonForcedAcceptedOnlyWhenIdle ==
    /\ \A i \in 1..Len(irLog) :
          (irLog[i].status = 200 /\ ~irLog[i].forceReindex /\ ~irLog[i].duplicate)
              => ~irLog[i].inFlightOnArrival
    /\ \A i \in RunsInFlight : processedIndexEvents[irLog[i].key].has

=============================================================================
